---- MODULE Spec2Model ----
(***************************************************************************)
(* Model of the goapi user service: the cache-aside protocol of            *)
(* services.userService over repositories.userRepository (authoritative    *)
(* store) and cache.redisCache / cache.noOpCache, and the in-memory token  *)
(* bucket of middleware.RateLimiter.                                       *)
(*                                                                         *)
(* Every repository call and every cache call of a service method is one   *)
(* atomic step (one SQL statement, one Redis command); the Go code between *)
(* two such calls touches only locals of the request and is folded into    *)
(* the step that follows it.                                               *)
(*                                                                         *)
(* Of models.User the fields ID, FirstName, Email, PassHash and Role are   *)
(* kept.  LastName and PhoneNum are handled by the code exactly as         *)
(* FirstName is; CreatedAt / UpdatedAt are never read by the service.      *)
(***************************************************************************)
EXTENDS Integers, Sequences, FiniteSets, TLC

\* ------------------------------------------------------------------------
\* Bounds
\* ------------------------------------------------------------------------
\* Number of rows the users table may ever receive (auto-increment ids 1..MaxUsers).
MaxUsers == 2
\* Number of service calls started in one behaviour.
MaxCalls == 3

Ids == 1..MaxUsers

\* ------------------------------------------------------------------------
\* Strings: an email is a sequence of characters, so that normalisation is
\* computed, not assumed.
\* ------------------------------------------------------------------------
Lower(ch) == CASE ch = "A" -> "a" [] ch = "B" -> "b" [] OTHER -> ch

\* strings.ToLower
ToLower(s) == [i \in DOMAIN s |-> Lower(s[i])]

RECURSIVE TrimLeft(_)
TrimLeft(s) == IF s # <<>> /\ Head(s) = " " THEN TrimLeft(Tail(s)) ELSE s

RECURSIVE TrimRight(_)
TrimRight(s) ==
    IF s # <<>> /\ s[Len(s)] = " " THEN TrimRight(SubSeq(s, 1, Len(s) - 1)) ELSE s

\* strings.TrimSpace
TrimSpace(s) == TrimRight(TrimLeft(s))

\* repositories.normalizeEmail
normalizeEmail(email) == ToLower(TrimSpace(email))

\* The emails callers supply: two addresses, and one spelling of the first
\* that differs from it in case and surrounding whitespace.
RawEmails == { <<"a">>, <<"b">>, <<" ", "A">> }

FirstNames == { "n1", "n2" }

\* ------------------------------------------------------------------------
\* models.User and its JSON encoding
\* ------------------------------------------------------------------------
\* A Go nil error.
Nil == "nil"

\* A nil *models.User.
NoUser == [none |-> TRUE]

\* A nil *string of an input struct is <<>>, a pointer to v is <<v>>.
None == <<>>
Some(v) == <<v>>

\* The zero value of models.User (what json.Unmarshal starts from).
ZeroUser == [ID |-> 0, FirstName |-> "", Email |-> <<>>, PassHash |-> "", Role |-> ""]

\* json.Marshal(user): a JSON object with one member per field that has a JSON
\* name; PassHash is tagged json:"-" and has none.
Marshal(user) ==
    [user_id |-> user.ID, first_name |-> user.FirstName, email |-> user.Email,
     role |-> user.Role]

\* A stored string that is not the JSON encoding of an object.
Garbage == [garbage |-> TRUE]

\* A variant that takes what it cannot decode for an empty object.
UnmarshalLenient(val) ==
    IF val = Garbage
      THEN [err |-> Nil, user |-> ZeroUser]
      ELSE [err |-> Nil,
            user |-> [ZeroUser EXCEPT !.ID = val.user_id, !.FirstName = val.first_name,
                                      !.Email = val.email, !.Role = val.role]]

\* json.Unmarshal(val, &user): members are copied to the fields whose JSON name
\* they carry, the other fields keep their zero value.
Unmarshal(val) ==
    IF val = Garbage
      THEN [err |-> "ErrDecode", user |-> NoUser]
      ELSE [err |-> Nil,
            user |-> [ZeroUser EXCEPT !.ID = val.user_id, !.FirstName = val.first_name,
                                      !.Email = val.email, !.Role = val.role]]

\* bcrypt stands outside the model: the hash is a function of the password.
HashPassword(password) == IF password = "p1" THEN "h1" ELSE "h2"

\* services.ValidRoles
ValidRoles == { "user", "admin" }

\* services.IsValidRole
IsValidRole(role) == role \in ValidRoles

\* ------------------------------------------------------------------------
\* Redis: a map from keys to values; a missing key reads as redis.Nil
\* ------------------------------------------------------------------------
idKey(id) == <<"user:id", id>>
emailKey(email) == <<"user:email", email>>

EmailKeys == RawEmails \cup { normalizeEmail(e) : e \in RawEmails }

Keys == { idKey(i) : i \in Ids } \cup { emailKey(e) : e \in EmailKeys }

RedisNil == [nil |-> TRUE]

EmptyRedis == [k \in Keys |-> RedisNil]

RedisSet(r, key, val) == [r EXCEPT ![key] = val]

RedisDel(r, keys) == [k \in Keys |-> IF k \in keys THEN RedisNil ELSE r[k]]

\* ------------------------------------------------------------------------
\* cache.redisCache
\* ------------------------------------------------------------------------
CacheMiss == [err |-> "ErrCacheMiss", user |-> NoUser]

redisGetUserByID(r, id) ==
    IF r[idKey(id)] = RedisNil THEN CacheMiss ELSE Unmarshal(r[idKey(id)])

redisSetUserByID(r, id, user) == RedisSet(r, idKey(id), Marshal(user))

redisGetUserByEmail(r, email) ==
    IF r[emailKey(email)] = RedisNil THEN CacheMiss ELSE Unmarshal(r[emailKey(email)])

redisSetUserByEmail(r, email, user) == RedisSet(r, emailKey(email), Marshal(user))

redisDeleteUserByID(r, id) == RedisDel(r, { idKey(id) })

redisDeleteUserByEmail(r, email) == RedisDel(r, { emailKey(email) })

\* One DEL command with both keys.
redisDeleteUser(r, id, email) == RedisDel(r, { idKey(id), emailKey(email) })

\* ------------------------------------------------------------------------
\* repositories.userRepository over the users table.
\* db = [rows |-> [Ids -> row or NoRow], nextID |-> next auto-increment id]
\* ------------------------------------------------------------------------
NoRow == [norow |-> TRUE]

EmptyDB == [rows |-> [i \in Ids |-> NoRow], nextID |-> 1]

RowIds(db) == { i \in Ids : db.rows[i] # NoRow }

\* WHERE LOWER(email) = LOWER(?)
MatchIds(db, email) ==
    { i \in RowIds(db) : ToLower(db.rows[i].Email) = ToLower(normalizeEmail(email)) }

Min(S) == CHOOSE x \in S : \A y \in S : x <= y

\* A variant of FindByID that hands gorm's error on as it is.
repoFindByIDUnmapped(db, id) ==
    IF id \in RowIds(db)
      THEN [err |-> Nil, user |-> db.rows[id]]
      ELSE [err |-> "ErrRecordNotFound", user |-> NoUser]

repoFindByID(db, id) ==
    IF id \in RowIds(db)
      THEN [err |-> Nil, user |-> db.rows[id]]
      ELSE [err |-> "ErrUserNotFound", user |-> NoUser]

repoFindByEmail(db, email) ==
    IF MatchIds(db, email) # {}
      THEN [err |-> Nil, user |-> db.rows[Min(MatchIds(db, email))]]
      ELSE [err |-> "ErrUserNotFound", user |-> NoUser]

repoExistsByEmail(db, email) == Cardinality(MatchIds(db, email)) > 0

\* The uniqueIndex on users.email.
UniqueViolation(db, id, email) ==
    \E i \in RowIds(db) : i # id /\ db.rows[i].Email = email

\* A variant over a table without the unique index.
repoCreateUnindexed(db, user) ==
    LET u == [user EXCEPT !.Email = normalizeEmail(user.Email)] IN
    [err |-> Nil,
     user |-> [u EXCEPT !.ID = db.nextID],
     db |-> [rows |-> [db.rows EXCEPT ![db.nextID] = [u EXCEPT !.ID = db.nextID]],
             nextID |-> db.nextID + 1]]

\* Create normalizes user.Email in place, inserts, and gorm writes the new id
\* into user.ID.  Returns the error, the caller's user struct and the table.
repoCreate(db, user) ==
    LET u == [user EXCEPT !.Email = normalizeEmail(user.Email)] IN
    IF UniqueViolation(db, 0, u.Email)
      THEN [err |-> "ErrDuplicateKey", user |-> u, db |-> db]
      ELSE [err |-> Nil,
            user |-> [u EXCEPT !.ID = db.nextID],
            db |-> [rows |-> [db.rows EXCEPT ![db.nextID] = [u EXCEPT !.ID = db.nextID]],
                    nextID |-> db.nextID + 1]]

\* db.Model(user).Updates(user) writes the fields of the struct that are not
\* the zero value of their type and leaves the other columns as they are.
Updated(row, u) ==
    [f \in DOMAIN row |-> IF u[f] = ZeroUser[f] THEN row[f] ELSE u[f]]

\* Update normalizes user.Email in place and runs UPDATE ... WHERE id = user.ID;
\* an UPDATE that matches no row is not an error.
repoUpdate(db, user) ==
    LET u == [user EXCEPT !.Email = normalizeEmail(user.Email)] IN
    IF u.ID \notin RowIds(db)
      THEN [err |-> Nil, user |-> u, db |-> db]
      ELSE IF UniqueViolation(db, u.ID, u.Email)
        THEN [err |-> "ErrDuplicateKey", user |-> u, db |-> db]
        ELSE [err |-> Nil, user |-> u,
              db |-> [db EXCEPT !.rows[u.ID] = Updated(db.rows[u.ID], u)]]

\* Delete reports ErrUserNotFound when RowsAffected is 0.
repoDelete(db, id) ==
    IF id \in RowIds(db)
      THEN [err |-> Nil, db |-> [db EXCEPT !.rows[id] = NoRow]]
      ELSE [err |-> "ErrUserNotFound", db |-> db]

\* ------------------------------------------------------------------------
\* State
\* ------------------------------------------------------------------------
\* A world is one deployment of the service: its own users table, its own
\* Redis and its own request handlers.  World 1 is the service under study.
\* World 2, when a specification uses it, receives the same calls as world 1
\* and is wired with another cache.Cache, so that the answers can be compared.
Worlds == { 1, 2 }

\* Request-handling goroutines of one world.
MaxProcs == 2
Procs == 1..MaxProcs

VARIABLES
    store,   \* [Worlds -> db]: the users table behind repositories.userRepository
    cache,   \* [Worlds -> redis]: the Redis keyspace behind cache.redisCache
    proc,    \* [Worlds -> [Procs -> call]]: the service call each goroutine is in
    env,     \* fixed wiring: worlds and goroutines in use, cache.Cache of each world,
             \* whether Redis / the database may fail, the inputs callers use
    calls,   \* [started, creates]: number of calls / CreateUser calls started
    rl,      \* middleware.RateLimiter and its callers
    codec    \* a cache write followed by a cache read of one key

vars == <<store, cache, proc, env, calls, rl, codec>>

\* A goroutine that is in no service call.  Beside the arguments and locals of
\* the Go method, a call keeps a history: log (the repository and cache calls it
\* issued, with their errors), pre (the row its repository write replaced),
\* overlap (the calls of other goroutines that ran while it ran), and the
\* indices of its cache calls (faults) and repository calls (rfaults) that failed.
Idle ==
    [op |-> "idle", pc |-> "idle", id |-> 0, email |-> <<>>, input |-> <<>>,
     user |-> NoUser, oldEmail |-> <<>>, ret |-> [user |-> NoUser, err |-> Nil],
     log |-> <<>>, pre |-> NoRow, overlap |-> <<>>, faults |-> {}, rfaults |-> {}]

\* return user, err
Return(c, user, err) == [c EXCEPT !.pc = "done", !.ret = [user |-> user, err |-> err]]

Goto(c, pc) == [c EXCEPT !.pc = pc]

NumCalls(c, kind) == Cardinality({ i \in DOMAIN c.log : c.log[i][1] = kind })

\* The call record after a repository call was made.
LogRepo(c, name, err, fail) ==
    [c EXCEPT !.log = Append(c.log, <<"repo", name, err>>),
              !.rfaults = IF fail THEN @ \cup { NumCalls(c, "repo") + 1 } ELSE @]

\* The call record after a cache call was made.
LogCache(c, name, err, fail) ==
    [c EXCEPT !.log = Append(c.log, <<"cache", name, err>>),
              !.faults = IF fail THEN @ \cup { NumCalls(c, "cache") + 1 } ELSE @]

\* Whether the next cache call of goroutine p of world w meets an unreachable
\* Redis: free in world 1 where the specification allows failures; world 2
\* meets the failures world 1 met in the same call.
CacheFails(w, p) ==
    IF w = 1
      THEN (IF env.cacheFaults THEN BOOLEAN ELSE { FALSE })
      ELSE { (NumCalls(proc[w][p], "cache") + 1) \in proc[1][p].faults }

\* The same for the next repository call and an unreachable database.
RepoFails(w, p) ==
    IF w = 1
      THEN (IF env.dbFaults THEN BOOLEAN ELSE { FALSE })
      ELSE { (NumCalls(proc[w][p], "repo") + 1) \in proc[1][p].rfaults }

\* A repository read when the database may be unreachable.
repoRead(fail, res) == IF fail THEN [err |-> "ErrDB", user |-> NoUser] ELSE res

\* A repository write when the database may be unreachable.
repoWrite(fail, db, user, res) ==
    IF fail THEN [err |-> "ErrDB", user |-> user, db |-> db] ELSE res

\* ------------------------------------------------------------------------
\* cache.Cache as the service sees it: im is the implementation wired in
\* ("redis" is cache.redisCache, "noop" is cache.noOpCache), fail tells whether
\* the Redis command fails.  "lossy" is the cache the error-handling property
\* compares with: a redisCache whose failed reads answer ErrCacheMiss and whose
\* failed writes answer nil.
\* ------------------------------------------------------------------------
cacheRead(im, fail, res) ==
    CASE im = "noop" -> CacheMiss
      [] im = "lossy" /\ (fail \/ res.err # Nil) -> CacheMiss
      [] im = "redis" /\ fail -> [err |-> "ErrRedis", user |-> NoUser]
      [] OTHER -> res

cacheWrite(im, fail, r, r2) ==
    CASE im = "noop" -> [err |-> Nil, r |-> r]
      [] im = "lossy" /\ fail -> [err |-> Nil, r |-> r]
      [] im = "redis" /\ fail -> [err |-> "ErrRedis", r |-> r]
      [] OTHER -> [err |-> Nil, r |-> r2]

\* A goroutine of world w may take a step: world 2 replays a call after world 1
\* has finished it.
MayStep(w, p) == w \in env.worlds /\ p \in env.procs /\ (w = 1 \/ proc[1][p].pc = "done")

\* One cache write by goroutine p of world w: r2 is the keyspace the command
\* leaves when it succeeds, nxt the call record after the call.
DoCacheWrite(w, p, name, r2, nxt) ==
    \E fail \in CacheFails(w, p) :
       LET res == cacheWrite(env.impl[w], fail, cache[w], r2) IN
       /\ cache' = [cache EXCEPT ![w] = res.r]
       /\ proc' = [proc EXCEPT ![w][p] = LogCache(nxt, name, res.err, fail)]
       /\ UNCHANGED <<store, env, calls, rl, codec>>

\* One step that touches neither table nor keyspace.
DoLocal(w, p, nxt) ==
    /\ proc' = [proc EXCEPT ![w][p] = nxt]
    /\ UNCHANGED <<store, cache, env, calls, rl, codec>>

\* A variant that hands every cache error but a miss to the caller.
AfterCacheGetStrict(c, g, next) ==
    IF g.err = Nil THEN Return(c, g.user, Nil)
    ELSE IF g.err = "ErrCacheMiss" THEN Goto(c, next)
    ELSE Return(c, NoUser, g.err)

\* A variant that goes on to the database after a hit too.
AfterCacheGetThenFind(c, g, next) == Goto(c, next)

\* if err == nil { return user, nil }: any error of the cache read, miss or
\* not, falls through to the database.
AfterCacheGet(c, g, next) ==
    IF g.err = Nil THEN Return(c, g.user, Nil) ELSE Goto(c, next)

\* if err != nil { return nil, err } after FindByID / FindByEmail
\* (repositories.ErrUserNotFound becomes services.ErrUserNotFound).
AfterFind(c, f, next) ==
    IF f.err # Nil THEN Return(c, NoUser, f.err) ELSE Goto([c EXCEPT !.user = f.user], next)

\* ------------------------------------------------------------------------
\* userService.GetUserByID
\* ------------------------------------------------------------------------
GetIDCache(w, p) ==
    /\ MayStep(w, p) /\ proc[w][p].pc = "GetIDCache"
    /\ \E fail \in CacheFails(w, p) :
         LET c == proc[w][p]
             g == cacheRead(env.impl[w], fail, redisGetUserByID(cache[w], c.id))
         IN DoLocal(w, p, AfterCacheGet(LogCache(c, "GetUserByID", g.err, fail), g, "GetIDFind"))

GetIDFind(w, p) ==
    /\ MayStep(w, p) /\ proc[w][p].pc = "GetIDFind"
    /\ \E fail \in RepoFails(w, p) :
         LET c == proc[w][p]
             f == repoRead(fail, repoFindByID(store[w], c.id))
         IN DoLocal(w, p, AfterFind(LogRepo(c, "FindByID", f.err, fail), f, "GetIDSetID"))

GetIDSetID(w, p) ==
    LET c == proc[w][p] IN
    /\ MayStep(w, p) /\ c.pc = "GetIDSetID"
    /\ DoCacheWrite(w, p, "SetUserByID", redisSetUserByID(cache[w], c.id, c.user),
                    Goto(c, "GetIDSetEmail"))

GetIDSetEmail(w, p) ==
    LET c == proc[w][p] IN
    /\ MayStep(w, p) /\ c.pc = "GetIDSetEmail"
    /\ DoCacheWrite(w, p, "SetUserByEmail",
                    redisSetUserByEmail(cache[w], c.user.Email, c.user),
                    Return(c, c.user, Nil))

\* ------------------------------------------------------------------------
\* userService.GetUserByEmail
\* ------------------------------------------------------------------------
GetEmailCache(w, p) ==
    /\ MayStep(w, p) /\ proc[w][p].pc = "GetEmailCache"
    /\ \E fail \in CacheFails(w, p) :
         LET c == proc[w][p]
             g == cacheRead(env.impl[w], fail, redisGetUserByEmail(cache[w], c.email))
         IN DoLocal(w, p, AfterCacheGet(LogCache(c, "GetUserByEmail", g.err, fail), g,
                                        "GetEmailFind"))

GetEmailFind(w, p) ==
    /\ MayStep(w, p) /\ proc[w][p].pc = "GetEmailFind"
    /\ \E fail \in RepoFails(w, p) :
         LET c == proc[w][p]
             f == repoRead(fail, repoFindByEmail(store[w], c.email))
         IN DoLocal(w, p, AfterFind(LogRepo(c, "FindByEmail", f.err, fail), f,
                                    "GetEmailSetEmail"))

\* The key is the email the caller passed, not user.Email.
GetEmailSetEmail(w, p) ==
    LET c == proc[w][p] IN
    /\ MayStep(w, p) /\ c.pc = "GetEmailSetEmail"
    /\ DoCacheWrite(w, p, "SetUserByEmail",
                    redisSetUserByEmail(cache[w], c.email, c.user),
                    Goto(c, "GetEmailSetID"))

GetEmailSetID(w, p) ==
    LET c == proc[w][p] IN
    /\ MayStep(w, p) /\ c.pc = "GetEmailSetID"
    /\ DoCacheWrite(w, p, "SetUserByID", redisSetUserByID(cache[w], c.user.ID, c.user),
                    Return(c, c.user, Nil))

\* ------------------------------------------------------------------------
\* userService.CreateUser
\* ------------------------------------------------------------------------
\* A variant that goes on to the cache whatever the repository answered.
AfterWriteIgnoringErr(c, res, next) ==
    Goto([c EXCEPT !.user = res.user], next)

\* if err := s.userRepo.X(...); err != nil { return nil, err }: the cache is
\* touched only after the repository acknowledged the write.
AfterWrite(c, res, next) ==
    IF res.err # Nil THEN Return(c, NoUser, res.err) ELSE Goto([c EXCEPT !.user = res.user], next)

\* The models.User CreateUser builds from its input.
NewUser(input) ==
    [ZeroUser EXCEPT !.FirstName = input.FirstName, !.Email = input.Email,
                     !.PassHash = HashPassword(input.Password),
                     !.Role = IF input.Role = "" THEN "user" ELSE input.Role]

\* A variant that does not look at the answer.
AfterExistsUnchecked(c, exists, err, nxt) ==
    IF err # Nil THEN Return(c, NoUser, err) ELSE nxt

\* ExistsByEmail answered (exists, err): return on error or on a taken email.
AfterExists(c, exists, err, nxt) ==
    IF err # Nil THEN Return(c, NoUser, err)
    ELSE IF exists THEN Return(c, NoUser, "ErrEmailExists")
    ELSE nxt

\* The role is validated before the repository is asked anything.
CreateInvalidRole(w, p) ==
    LET c == proc[w][p] IN
    /\ MayStep(w, p) /\ c.pc = "CreateExists"
    /\ c.input.Role # "" /\ ~IsValidRole(c.input.Role)
    /\ DoLocal(w, p, Return(c, NoUser, "ErrInvalidRole"))

CreateExists(w, p) ==
    /\ MayStep(w, p) /\ proc[w][p].pc = "CreateExists"
    /\ ~(proc[w][p].input.Role # "" /\ ~IsValidRole(proc[w][p].input.Role))
    /\ \E fail \in RepoFails(w, p) :
         LET c == proc[w][p]
             err == IF fail THEN "ErrDB" ELSE Nil
             c2 == LogRepo(c, "ExistsByEmail", err, fail)
         IN DoLocal(w, p, AfterExists(c2, repoExistsByEmail(store[w], c.input.Email), err,
                                      Goto([c2 EXCEPT !.user = NewUser(c.input)], "CreateSave")))

CreateSave(w, p) ==
    /\ MayStep(w, p) /\ proc[w][p].pc = "CreateSave"
    /\ \E fail \in RepoFails(w, p) :
         LET c == proc[w][p]
             res == repoWrite(fail, store[w], c.user, repoCreate(store[w], c.user))
         IN /\ store' = [store EXCEPT ![w] = res.db]
            /\ proc' = [proc EXCEPT ![w][p] =
                           AfterWrite(LogRepo(c, "Create", res.err, fail), res, "CreateSetID")]
            /\ UNCHANGED <<cache, env, calls, rl, codec>>

CreateSetID(w, p) ==
    LET c == proc[w][p] IN
    /\ MayStep(w, p) /\ c.pc = "CreateSetID"
    /\ DoCacheWrite(w, p, "SetUserByID", redisSetUserByID(cache[w], c.user.ID, c.user),
                    Goto(c, "CreateSetEmail"))

CreateSetEmail(w, p) ==
    LET c == proc[w][p] IN
    /\ MayStep(w, p) /\ c.pc = "CreateSetEmail"
    /\ DoCacheWrite(w, p, "SetUserByEmail",
                    redisSetUserByEmail(cache[w], c.user.Email, c.user),
                    Return(c, c.user, Nil))

\* ------------------------------------------------------------------------
\* userService.UpdateUser
\* ------------------------------------------------------------------------
NoFields(input) ==
    input.FirstName = None /\ input.Email = None /\ input.Password = None /\ input.Role = None

\* The role and password blocks, which follow the email block.
UpdRoleAndPassword(c) ==
    IF c.input.Role # None /\ ~IsValidRole(c.input.Role[1])
      THEN Return(c, NoUser, "ErrInvalidRole")
      ELSE Goto([c EXCEPT
                   !.user.Role = IF c.input.Role # None THEN c.input.Role[1] ELSE @,
                   !.user.PassHash = IF c.input.Password # None
                                       THEN HashPassword(c.input.Password[1]) ELSE @],
                "UpdSave")

\* if normalizedInputEmail != normalizedCurrentEmail
EmailDiffers(input, user) ==
    /\ input.Email # None
    /\ normalizeEmail(input.Email[1]) # normalizeEmail(user.Email)

\* FindByID, then everything up to the next repository call.
UpdFind(w, p) ==
    /\ MayStep(w, p) /\ proc[w][p].pc = "UpdFind"
    /\ \E fail \in RepoFails(w, p) :
         LET c == proc[w][p]
             f == repoRead(fail, repoFindByID(store[w], c.id))
             c1 == LogRepo(c, "FindByID", f.err, fail)
             c2 == [c1 EXCEPT !.user = [f.user EXCEPT !.FirstName =
                                          IF c.input.FirstName # None
                                            THEN c.input.FirstName[1] ELSE @],
                              !.oldEmail = f.user.Email]
         IN DoLocal(w, p,
              IF f.err # Nil THEN Return(c1, NoUser, f.err)
              ELSE IF NoFields(c.input) THEN Return(c1, NoUser, "ErrNoFieldsToUpdate")
              ELSE IF EmailDiffers(c.input, f.user) THEN Goto(c2, "UpdExists")
              ELSE UpdRoleAndPassword(c2))

UpdExists(w, p) ==
    /\ MayStep(w, p) /\ proc[w][p].pc = "UpdExists"
    /\ \E fail \in RepoFails(w, p) :
         LET c == proc[w][p]
             err == IF fail THEN "ErrDB" ELSE Nil
             c2 == LogRepo(c, "ExistsByEmail", err, fail)
         IN DoLocal(w, p, AfterExists(c2, repoExistsByEmail(store[w], c.input.Email[1]), err,
                            UpdRoleAndPassword([c2 EXCEPT !.user.Email = c.input.Email[1]])))

\* if input.Email != nil && *input.Email != oldEmail
EmailBranch(c) == c.input.Email # None /\ c.input.Email[1] # c.oldEmail

UpdSave(w, p) ==
    /\ MayStep(w, p) /\ proc[w][p].pc = "UpdSave"
    /\ \E fail \in RepoFails(w, p) :
         LET c == proc[w][p]
             res == repoWrite(fail, store[w], c.user, repoUpdate(store[w], c.user))
             c2 == [LogRepo(c, "Update", res.err, fail) EXCEPT !.pre = store[w].rows[c.id]]
         IN /\ store' = [store EXCEPT ![w] = res.db]
            /\ proc' = [proc EXCEPT ![w][p] =
                           AfterWrite(c2, res, IF EmailBranch(c) THEN "UpdDelOldEmail"
                                                                 ELSE "UpdDeleteUser")]
            /\ UNCHANGED <<cache, env, calls, rl, codec>>

\* A variant that gives up the invalidation when the old e-mail key cannot be
\* removed.
UpdDelOldEmailStopping(w, p) ==
    LET c == proc[w][p] IN
    /\ MayStep(w, p) /\ c.pc = "UpdDelOldEmail"
    /\ \E fail \in CacheFails(w, p) :
          LET res == cacheWrite(env.impl[w], fail, cache[w],
                                redisDeleteUserByEmail(cache[w], c.oldEmail)) IN
          /\ cache' = [cache EXCEPT ![w] = res.r]
          /\ proc' = [proc EXCEPT ![w][p] =
                         LogCache(Goto(c, IF res.err = Nil THEN "UpdDelID" ELSE "UpdSetID"),
                                  "DeleteUserByEmail", res.err, fail)]
          /\ UNCHANGED <<store, env, calls, rl, codec>>

UpdDelOldEmail(w, p) ==
    LET c == proc[w][p] IN
    /\ MayStep(w, p) /\ c.pc = "UpdDelOldEmail"
    /\ DoCacheWrite(w, p, "DeleteUserByEmail", redisDeleteUserByEmail(cache[w], c.oldEmail),
                    Goto(c, "UpdDelID"))

UpdDelID(w, p) ==
    LET c == proc[w][p] IN
    /\ MayStep(w, p) /\ c.pc = "UpdDelID"
    /\ DoCacheWrite(w, p, "DeleteUserByID", redisDeleteUserByID(cache[w], c.id),
                    Goto(c, "UpdSetID"))

UpdDeleteUser(w, p) ==
    LET c == proc[w][p] IN
    /\ MayStep(w, p) /\ c.pc = "UpdDeleteUser"
    /\ DoCacheWrite(w, p, "DeleteUser", redisDeleteUser(cache[w], c.id, c.user.Email),
                    Goto(c, "UpdSetID"))

UpdSetID(w, p) ==
    LET c == proc[w][p] IN
    /\ MayStep(w, p) /\ c.pc = "UpdSetID"
    /\ DoCacheWrite(w, p, "SetUserByID", redisSetUserByID(cache[w], c.user.ID, c.user),
                    Goto(c, "UpdSetEmail"))

UpdSetEmail(w, p) ==
    LET c == proc[w][p] IN
    /\ MayStep(w, p) /\ c.pc = "UpdSetEmail"
    /\ DoCacheWrite(w, p, "SetUserByEmail",
                    redisSetUserByEmail(cache[w], c.user.Email, c.user),
                    Return(c, c.user, Nil))

\* ------------------------------------------------------------------------
\* userService.DeleteUser
\* ------------------------------------------------------------------------
\* A variant that invalidates the keys of an id it did not find.
DelFindThenInvalidate(w, p) ==
    /\ MayStep(w, p) /\ proc[w][p].pc = "DelFind"
    /\ \E fail \in RepoFails(w, p) :
         LET c == proc[w][p]
             f == repoRead(fail, repoFindByID(store[w], c.id))
             c1 == LogRepo(c, "FindByID", f.err, fail)
         IN DoLocal(w, p, IF f.err # Nil THEN Goto([c1 EXCEPT !.user = ZeroUser], "DelInvalidate")
                          ELSE Goto([c1 EXCEPT !.user = f.user], "DelDelete"))

DelFind(w, p) ==
    /\ MayStep(w, p) /\ proc[w][p].pc = "DelFind"
    /\ \E fail \in RepoFails(w, p) :
         LET c == proc[w][p]
             f == repoRead(fail, repoFindByID(store[w], c.id))
         IN DoLocal(w, p, AfterFind(LogRepo(c, "FindByID", f.err, fail), f, "DelDelete"))

DelDelete(w, p) ==
    /\ MayStep(w, p) /\ proc[w][p].pc = "DelDelete"
    /\ \E fail \in RepoFails(w, p) :
         LET c == proc[w][p]
             d == repoDelete(store[w], c.id)
             res == repoWrite(fail, store[w], c.user,
                              [err |-> d.err, user |-> c.user, db |-> d.db])
             c2 == [LogRepo(c, "Delete", res.err, fail) EXCEPT !.pre = store[w].rows[c.id]]
         IN /\ store' = [store EXCEPT ![w] = res.db]
            /\ proc' = [proc EXCEPT ![w][p] = AfterWrite(c2, res, "DelInvalidate")]
            /\ UNCHANGED <<cache, env, calls, rl, codec>>

\* email := user.Email was taken from the record FindByID returned.
DelInvalidate(w, p) ==
    LET c == proc[w][p] IN
    /\ MayStep(w, p) /\ c.pc = "DelInvalidate"
    /\ DoCacheWrite(w, p, "DeleteUser", redisDeleteUser(cache[w], c.id, c.user.Email),
                    Return(c, NoUser, Nil))

\* ------------------------------------------------------------------------
\* Callers: the inputs the controllers hand to the service
\* ------------------------------------------------------------------------
CreateInputs ==
    [FirstName : { "n1" }, Email : RawEmails, Password : { "p1" }, Role : { "", "root" }]

UpdateInputs ==
    [FirstName : { None, Some("n2") },
     Email : { None } \cup { Some(e) : e \in RawEmails },
     Password : { None, Some("p2") },
     Role : { None, Some("user"), Some("root") }]

Supplied(in) ==
    Cardinality({ f \in { "FirstName", "Email", "Password", "Role" } : in[f] # None })

\* The update requests of the sequential specifications: every combination of
\* first name and email, each other field alone, and an invalid role together
\* with an email.
SeqUpdateInputs ==
    { in \in UpdateInputs :
        \/ in.Password = None /\ in.Role = None
        \/ Supplied(in) = 1
        \/ in.Role = Some("root") /\ in.FirstName = None /\ in.Password = None }

InFlight(c) == c.pc \notin { "idle", "done" }

\* The calls the goroutines of world w other than p are in, in goroutine order.
RECURSIVE OpsOf(_, _, _)
OpsOf(w, p, q) ==
    IF q > MaxProcs THEN <<>>
    ELSE (IF q # p /\ InFlight(proc[w][q]) THEN <<proc[w][q].op>> ELSE <<>>)
         \o OpsOf(w, p, q + 1)

OpsInFlight(w, p) == OpsOf(w, p, 1)

\* Goroutine p of every world in use enters call c.  In world 1 the call and
\* the calls of the other goroutines that are under way note each other.
Start(p, c) ==
    /\ p \in env.procs
    /\ \A w \in env.worlds : proc[w][p].pc = "idle"
    /\ calls.started < MaxCalls
    /\ proc' = [w \in Worlds |->
                  IF w \notin env.worlds THEN proc[w]
                  ELSE [q \in Procs |->
                          IF q = p
                            THEN [c EXCEPT !.overlap = OpsInFlight(w, p)]
                          ELSE IF InFlight(proc[w][q])
                            THEN [proc[w][q] EXCEPT !.overlap = Append(@, c.op)]
                          ELSE proc[w][q]]]
    /\ calls' = [started |-> calls.started + 1,
                 creates |-> calls.creates
                            + (IF c.op \in { "CreateUser", "Register" } THEN 1 ELSE 0)]
    /\ UNCHANGED <<store, cache, env, rl, codec>>

CallCreateUser(p) ==
    /\ calls.creates < MaxUsers
    /\ \E in \in env.createInputs :
         Start(p, [Idle EXCEPT !.op = "CreateUser", !.pc = "CreateExists", !.input = in])

CallGetUserByID(p) ==
    \E id \in env.ids :
       Start(p, [Idle EXCEPT !.op = "GetUserByID", !.pc = "GetIDCache", !.id = id])

CallGetUserByEmail(p) ==
    \E e \in env.emails :
       Start(p, [Idle EXCEPT !.op = "GetUserByEmail", !.pc = "GetEmailCache", !.email = e])

CallUpdateUser(p) ==
    \E id \in env.ids, in \in env.updateInputs :
       Start(p, [Idle EXCEPT !.op = "UpdateUser", !.pc = "UpdFind", !.id = id, !.input = in])

CallDeleteUser(p) ==
    \E id \in env.ids :
       Start(p, [Idle EXCEPT !.op = "DeleteUser", !.pc = "DelFind", !.id = id])

\* The call has returned in every world; the goroutine is free again.
Finish(p) ==
    /\ p \in env.procs
    /\ \A w \in env.worlds : proc[w][p].pc = "done"
    /\ proc' = [w \in Worlds |-> IF w \in env.worlds THEN [proc[w] EXCEPT ![p] = Idle] ELSE proc[w]]
    /\ UNCHANGED <<store, cache, env, calls, rl, codec>>

\* Redis drops a key whose TTL (cache.UserCacheTTL) has run out.  Time is not
\* measured: a key may expire at any moment after it was set.  Where two worlds
\* are compared, they lose the key together, between two calls.
Expire(k) ==
    /\ cache[1][k] # RedisNil
    /\ Cardinality(env.worlds) > 1 =>
          \A w \in env.worlds, p \in env.procs : proc[w][p].pc = "idle"
    /\ cache' = [w \in Worlds |-> IF w \in env.worlds THEN RedisDel(cache[w], { k }) ELSE cache[w]]
    /\ UNCHANGED <<store, proc, env, calls, rl, codec>>

Step(w, p) ==
    \/ GetIDCache(w, p) \/ GetIDFind(w, p) \/ GetIDSetID(w, p) \/ GetIDSetEmail(w, p)
    \/ GetEmailCache(w, p) \/ GetEmailFind(w, p) \/ GetEmailSetEmail(w, p) \/ GetEmailSetID(w, p)
    \/ CreateInvalidRole(w, p)
    \/ CreateExists(w, p) \/ CreateSave(w, p) \/ CreateSetID(w, p) \/ CreateSetEmail(w, p)
    \/ UpdFind(w, p) \/ UpdExists(w, p) \/ UpdSave(w, p) \/ UpdDelOldEmail(w, p)
    \/ UpdDelID(w, p) \/ UpdDeleteUser(w, p) \/ UpdSetID(w, p) \/ UpdSetEmail(w, p)
    \/ DelFind(w, p) \/ DelDelete(w, p) \/ DelInvalidate(w, p)

Next ==
    \/ \E p \in Procs :
          \/ CallCreateUser(p) \/ CallGetUserByID(p) \/ CallGetUserByEmail(p)
          \/ CallUpdateUser(p) \/ CallDeleteUser(p) \/ Finish(p)
    \/ \E w \in Worlds, p \in Procs : Step(w, p)
    \/ \E k \in Keys : Expire(k)

InitService(e) ==
    /\ store = [w \in Worlds |-> EmptyDB]
    /\ cache = [w \in Worlds |-> EmptyRedis]
    /\ proc = [w \in Worlds |-> [p \in Procs |-> Idle]]
    /\ env = e
    /\ calls = [started |-> 0, creates |-> 0]
    /\ rl = <<>>
    /\ codec = <<>>

\* Concurrent request handlers on one service with a working Redis and a
\* working database, all calls about the first user.
Init ==
    InitService([worlds |-> { 1 }, procs |-> Procs, impl |-> <<"redis", "noop">>,
                 dbFaults |-> FALSE, cacheFaults |-> FALSE,
                 ids |-> { 1 }, emails |-> { <<"a">>, <<"b">> },
                 createInputs |-> { in \in CreateInputs : in.Email = <<"a">> },
                 updateInputs |-> { in \in UpdateInputs :
                                      /\ in.Password = None /\ in.Role = None
                                      /\ in.Email \in { None, Some(<<"b">>) } }])

Spec == Init /\ [][Next]_vars

\* Two goroutines over a working Redis and database, with addresses that are
\* equal once normalized, for calls that race for one address.
InitRace ==
    InitService([worlds |-> { 1 }, procs |-> Procs, impl |-> <<"redis", "noop">>,
                 dbFaults |-> FALSE, cacheFaults |-> FALSE,
                 ids |-> { 1 }, emails |-> { <<"a">> },
                 createInputs |-> CreateInputs,
                 updateInputs |-> { in \in UpdateInputs :
                                      /\ in.Password = None /\ in.Role = None
                                      /\ in.Email \in { None, Some(<<" ", "A">>) } }])

SpecRace == InitRace /\ [][Next]_vars

\* One caller at a time; world 1 has a working Redis, world 2 the no-op cache;
\* the database works.
InitSeq ==
    InitService([worlds |-> Worlds, procs |-> { 1 }, impl |-> <<"redis", "noop">>,
                 dbFaults |-> FALSE, cacheFaults |-> FALSE,
                 ids |-> Ids, emails |-> RawEmails,
                 createInputs |-> CreateInputs,
                 updateInputs |-> SeqUpdateInputs])

SpecSeq == InitSeq /\ [][Next]_vars

\* ------------------------------------------------------------------------
\* authService.Register and the status the controllers answer an error with
\* ------------------------------------------------------------------------
\* controllers.handleServiceError
handleServiceError(err) ==
    CASE err = "ErrInvalidCredentials" -> 401
      [] err = "ErrEmailExists" -> 409
      [] err = "ErrInvalidRole" -> 400
      [] err = "ErrUserNotFound" -> 404
      [] err = "ErrNoFieldsToUpdate" -> 400
      [] OTHER -> 500

\* The role is validated before the repository is asked anything.
RegInvalidRole(w, p) ==
    LET c == proc[w][p] IN
    /\ MayStep(w, p) /\ c.pc = "RegExists"
    /\ c.input.Role # "" /\ ~IsValidRole(c.input.Role)
    /\ DoLocal(w, p, Return(c, NoUser, "ErrInvalidRole"))

RegExists(w, p) ==
    /\ MayStep(w, p) /\ proc[w][p].pc = "RegExists"
    /\ ~(proc[w][p].input.Role # "" /\ ~IsValidRole(proc[w][p].input.Role))
    /\ \E fail \in RepoFails(w, p) :
         LET c == proc[w][p]
             err == IF fail THEN "ErrDB" ELSE Nil
             c2 == LogRepo(c, "ExistsByEmail", err, fail)
         IN DoLocal(w, p, AfterExists(c2, repoExistsByEmail(store[w], c.input.Email), err,
                                      Goto([c2 EXCEPT !.user = NewUser(c.input)], "RegSave")))

RegSave(w, p) ==
    /\ MayStep(w, p) /\ proc[w][p].pc = "RegSave"
    /\ \E fail \in RepoFails(w, p) :
         LET c == proc[w][p]
             res == repoWrite(fail, store[w], c.user, repoCreate(store[w], c.user))
         IN /\ store' = [store EXCEPT ![w] = res.db]
            /\ proc' = [proc EXCEPT ![w][p] =
                           AfterWrite(LogRepo(c, "Create", res.err, fail), res, "RegToken")]
            /\ UNCHANGED <<cache, env, calls, rl, codec>>

\* middleware.CreateToken signs with the configured secret, which does not
\* fail; Register returns the user and the token.
RegToken(w, p) ==
    LET c == proc[w][p] IN
    /\ MayStep(w, p) /\ c.pc = "RegToken"
    /\ DoLocal(w, p, Return(c, c.user, Nil))

CallRegister(p) ==
    /\ calls.creates < MaxUsers
    /\ \E in \in env.createInputs :
         Start(p, [Idle EXCEPT !.op = "Register", !.pc = "RegExists", !.input = in])

\* The user service and the auth service on the same table.
NextAuth ==
    \/ Next
    \/ \E p \in Procs : CallRegister(p)
    \/ \E w \in Worlds, p \in Procs :
          RegInvalidRole(w, p) \/ RegExists(w, p) \/ RegSave(w, p) \/ RegToken(w, p)

SpecAuth == InitSeq /\ [][NextAuth]_vars

\* One caller at a time; any cache call and any repository call may fail in
\* world 1; world 2 meets the same failures and takes a failed cache read for
\* a miss and drops a failed cache write.
InitFault ==
    InitService([worlds |-> Worlds, procs |-> { 1 }, impl |-> <<"redis", "lossy">>,
                 dbFaults |-> TRUE, cacheFaults |-> TRUE,
                 ids |-> Ids, emails |-> RawEmails,
                 createInputs |-> CreateInputs,
                 updateInputs |-> SeqUpdateInputs])

\* The value under a user key is replaced by one that json.Unmarshal rejects
\* (Redis is shared with whatever else writes to it); every world gets the same
\* damage, between two calls.
Corrupt(k) ==
    /\ env.cacheFaults
    /\ cache[1][k] \notin { RedisNil, Garbage }
    /\ \A w \in env.worlds, p \in env.procs : proc[w][p].pc = "idle"
    /\ cache' = [w \in Worlds |->
                   IF w \in env.worlds /\ cache[w][k] # RedisNil
                     THEN RedisSet(cache[w], k, Garbage) ELSE cache[w]]
    /\ UNCHANGED <<store, proc, env, calls, rl, codec>>

NextFault == Next \/ \E k \in Keys : Corrupt(k)

SpecFault == InitFault /\ [][NextFault]_vars

\* ------------------------------------------------------------------------
\* A cache write followed by a cache read of the same key (cache.redisCache)
\* ------------------------------------------------------------------------
CodecUsers ==
    [ID : Ids, FirstName : FirstNames, Email : EmailKeys, PassHash : { "h1", "h2" },
     Role : ValidRoles]

NoEnv == [worlds |-> {}, procs |-> {}]

InitCodec ==
    /\ store = [w \in Worlds |-> EmptyDB]
    /\ cache = [w \in Worlds |-> EmptyRedis]
    /\ proc = [w \in Worlds |-> [p \in Procs |-> Idle]]
    /\ env = NoEnv
    /\ calls = [started |-> 0, creates |-> 0]
    /\ rl = <<>>
    /\ codec \in [u : CodecUsers, phase : { "new" }, got : { CacheMiss }]

CodecSetByID ==
    /\ codec.phase = "new"
    /\ cache' = [cache EXCEPT ![1] = redisSetUserByID(cache[1], codec.u.ID, codec.u)]
    /\ codec' = [codec EXCEPT !.phase = "setByID"]
    /\ UNCHANGED <<store, proc, env, calls, rl>>

CodecSetByEmail ==
    /\ codec.phase = "new"
    /\ cache' = [cache EXCEPT ![1] = redisSetUserByEmail(cache[1], codec.u.Email, codec.u)]
    /\ codec' = [codec EXCEPT !.phase = "setByEmail"]
    /\ UNCHANGED <<store, proc, env, calls, rl>>

CodecGetByID ==
    /\ codec.phase = "setByID"
    /\ codec' = [codec EXCEPT !.phase = "gotByID",
                              !.got = redisGetUserByID(cache[1], codec.u.ID)]
    /\ UNCHANGED <<store, cache, proc, env, calls, rl>>

CodecGetByEmail ==
    /\ codec.phase = "setByEmail"
    /\ codec' = [codec EXCEPT !.phase = "gotByEmail",
                              !.got = redisGetUserByEmail(cache[1], codec.u.Email)]
    /\ UNCHANGED <<store, cache, proc, env, calls, rl>>

NextCodec == CodecSetByID \/ CodecSetByEmail \/ CodecGetByID \/ CodecGetByEmail

SpecCodec == InitCodec /\ [][NextCodec]_vars

\* ------------------------------------------------------------------------
\* middleware.RateLimiter: the in-memory token bucket
\* ------------------------------------------------------------------------
\* RateLimitMiddleware's default configuration.
DefaultRequestsPerMinute == 60

DefaultBurstSize == 10

\* Clock resolution: time.Time values are counted in ticks, two to the time
\* the default rate takes to accrue one token.
TicksPerMinute == 2 * DefaultRequestsPerMinute

\* time.NewTicker(5 * time.Minute) and the 10 * time.Minute of cleanup.
CleanupMinutes == 5

IdleMinutes == 10

\* A second, small bucket and the requests sent to it.
SmallBurst == 2

MaxRequests == 3

\* The requests sent to the default bucket.
ExampleRequests == 70

MaxKeys == 2

MaxGoroutines == 2

\* How often the clock advances in a behaviour.
MaxTickSteps == 2

RLKeys == 1..MaxKeys

Goroutines == 1..MaxGoroutines

\* Addresses of rateLimiterEntry values: an entry dropped from the map lives
\* on while a goroutine holds its pointer.
Addrs == 1..(MaxKeys + MaxGoroutines)

NoEntry == 0

RLConfigs ==
    { [RequestsPerMinute |-> DefaultRequestsPerMinute, BurstSize |-> DefaultBurstSize,
       keys |-> { 1 }, gs |-> { 1 }, requests |-> ExampleRequests],
      [RequestsPerMinute |-> DefaultRequestsPerMinute, BurstSize |-> SmallBurst,
       keys |-> RLKeys, gs |-> Goroutines, requests |-> MaxRequests] }

min(a, b) == IF a < b THEN a ELSE b

\* &rateLimiterEntry{tokens: BurstSize, lastUpdate: time.Now()}; created, n
\* and allowed record when the entry was made and the decisions taken on it.
newEntry(config, now) ==
    [tokens |-> config.BurstSize, lastUpdate |-> now,
     created |-> now, n |-> 0, allowed |-> 0]

\* int(elapsed.Minutes() * float64(RequestsPerMinute)) with elapsed in ticks.
\* A variant that takes the elapsed ticks for minutes.
tokensToAddPerTick(elapsed, rpm) == elapsed * rpm

tokensToAdd(elapsed, rpm) == (elapsed * rpm) \div TicksPerMinute

\* A variant in which a request that finds no token starts the wait afresh.
refillStampsWhenEmpty(entry, config, now) ==
    LET add == tokensToAdd(now - entry.lastUpdate, config.RequestsPerMinute) IN
    IF add > 0
      THEN [entry EXCEPT !.tokens = min(entry.tokens + add, config.BurstSize),
                         !.lastUpdate = now]
      ELSE IF entry.tokens = 0 THEN [entry EXCEPT !.lastUpdate = now] ELSE entry

\* A variant that moves lastUpdate on every call.
refillAlwaysStamps(entry, config, now) ==
    LET add == tokensToAdd(now - entry.lastUpdate, config.RequestsPerMinute) IN
    [entry EXCEPT !.tokens = min(entry.tokens + add, config.BurstSize), !.lastUpdate = now]

\* A variant that adds the accrued tokens without the cap.
refillUncapped(entry, config, now) ==
    LET add == tokensToAdd(now - entry.lastUpdate, config.RequestsPerMinute) IN
    IF add > 0
      THEN [entry EXCEPT !.tokens = entry.tokens + add, !.lastUpdate = now]
      ELSE entry

\* The refill of allow: tokens and lastUpdate change only when a whole token
\* has accrued.
refill(entry, config, now) ==
    LET add == tokensToAdd(now - entry.lastUpdate, config.RequestsPerMinute) IN
    IF add > 0
      THEN [entry EXCEPT !.tokens = min(entry.tokens + add, config.BurstSize),
                         !.lastUpdate = now]
      ELSE entry

\* if entry.tokens > 0 { entry.tokens--; return true }; return false
take(entry) ==
    IF entry.tokens > 0
      THEN [entry EXCEPT !.tokens = @ - 1, !.n = @ + 1, !.allowed = @ + 1]
      ELSE [entry EXCEPT !.n = @ + 1]

\* An address neither in the map nor held by a goroutine.
FreeAddrs ==
    { a \in Addrs : /\ \A k \in RLKeys : rl.entries[k] # a
                    /\ \A g \in Goroutines : rl.g[g].entry # a }

\* NewRateLimiter, before any request.
InitRL ==
    /\ store = [w \in Worlds |-> EmptyDB]
    /\ cache = [w \in Worlds |-> EmptyRedis]
    /\ proc = [w \in Worlds |-> [p \in Procs |-> Idle]]
    /\ env = NoEnv
    /\ calls = [started |-> 0, creates |-> 0]
    /\ codec = <<>>
    /\ \E config \in RLConfigs :
          rl = [config |-> config,
                entries |-> [k \in RLKeys |-> NoEntry],
                heap |-> [a \in Addrs |-> newEntry(config, 0)],
                g |-> [g \in Goroutines |-> [pc |-> "idle", entry |-> NoEntry, ret |-> FALSE]],
                now |-> 0, lastSweep |-> 0, ticks |-> 0]

\* The requests sent to the entry key k has now: those decided and those of
\* the goroutines that hold it.
Sent(k) ==
    IF rl.entries[k] = NoEntry THEN 0
    ELSE rl.heap[rl.entries[k]].n
         + Cardinality({ g \in Goroutines : rl.g[g].entry = rl.entries[k] })

\* allow, the section under rl.mu: look the entry up or make it.
AllowLookup(g, k) ==
    /\ g \in rl.config.gs /\ k \in rl.config.keys
    /\ rl.g[g].pc = "idle"
    /\ Sent(k) < rl.config.requests
    /\ IF rl.entries[k] # NoEntry
         THEN rl' = [rl EXCEPT !.g[g] = [pc |-> "entry", entry |-> rl.entries[k], ret |-> FALSE]]
         ELSE LET a == Min(FreeAddrs) IN
              rl' = [rl EXCEPT !.entries[k] = a,
                               !.heap[a] = newEntry(rl.config, rl.now),
                               !.g[g] = [pc |-> "entry", entry |-> a, ret |-> FALSE]]
    /\ UNCHANGED <<store, cache, proc, env, calls, codec>>

\* allow, the section under entry.mu: refill, then take a token or refuse.  An
\* entry that the map no longer holds is garbage once its last holder returns.
AllowRefill(g) ==
    /\ rl.g[g].pc = "entry"
    /\ LET a == rl.g[g].entry
           refilled == refill(rl.heap[a], rl.config, rl.now)
       IN rl' = [rl EXCEPT !.heap[a] = IF \E k \in RLKeys : rl.entries[k] = a
                                         THEN take(refilled)
                                         ELSE newEntry(rl.config, 0),
                           !.g[g] = [pc |-> "idle", entry |-> NoEntry,
                                     ret |-> refilled.tokens > 0]]
    /\ UNCHANGED <<store, cache, proc, env, calls, codec>>

\* cleanup, one delivery of the ticker: drop the entries idle for more than
\* ten minutes.
Cleanup ==
    /\ rl.now - rl.lastSweep >= CleanupMinutes * TicksPerMinute
    /\ LET idle == { k \in RLKeys :
                        /\ rl.entries[k] # NoEntry
                        /\ rl.now - rl.heap[rl.entries[k]].lastUpdate
                              > IdleMinutes * TicksPerMinute }
           held == { rl.g[g].entry : g \in Goroutines }
       IN rl' = [rl EXCEPT !.lastSweep = rl.now,
                           !.entries = [k \in RLKeys |->
                               IF k \in idle THEN NoEntry ELSE rl.entries[k]],
                           !.heap = [a \in Addrs |->
                               IF a \notin held /\ \E k \in idle : rl.entries[k] = a
                                 THEN newEntry(rl.config, 0) ELSE rl.heap[a]]]
    /\ UNCHANGED <<store, cache, proc, env, calls, codec>>

\* The clock advances: by one tick or past the idle limit.
TickSteps == { 1, IdleMinutes * TicksPerMinute + 1 }

Tick(d) ==
    /\ rl.ticks < MaxTickSteps
    /\ rl' = [rl EXCEPT !.now = @ + d, !.ticks = @ + 1]
    /\ UNCHANGED <<store, cache, proc, env, calls, codec>>

NextRL ==
    \/ \E g \in Goroutines, k \in RLKeys : AllowLookup(g, k)
    \/ \E g \in Goroutines : AllowRefill(g)
    \/ Cleanup
    \/ \E d \in TickSteps : Tick(d)

SpecRL == InitRL /\ [][NextRL]_vars

\* ------------------------------------------------------------------------
\* middleware.RedisRateLimiter over cache.redisCache.IncrementRateLimit
\* ------------------------------------------------------------------------
\* Independent limiter instances (API processes) that share one Redis.
MaxInstances == 2

Instances == 1..MaxInstances

\* A second, small limit.
SmallRate == 2

\* Requests sent to a key beyond its limit in one window, and the windows
\* that run out in a behaviour.
MaxOver == 2

MaxWindows == 2

\* The ratelimit:<key> counters of an empty Redis (0: no such key).
NoCounters == [k \in RLKeys |-> 0]

\* INCR ratelimit:<key>: the key is created at 0 when it is missing.
Incr(counters, k) == [counters EXCEPT ![k] = @ + 1]

\* A variant that adds the burst size to the limit.
redisAllowedWithBurst(count, err, rpm) == err # Nil \/ count <= rpm + SmallBurst

\* A variant that lets one request more through.
redisAllowedUpTo(count, err, rpm) == err # Nil \/ count <= rpm + 1

\* A variant that refuses when the counter store fails.
redisAllowedFailClosed(count, err, rpm) == err = Nil /\ count <= rpm

\* RedisRateLimiter.allow after IncrementRateLimit answered (count, err).
redisAllowed(count, err, rpm) ==
    IF err # Nil THEN TRUE
    ELSE IF count > rpm THEN FALSE
    ELSE TRUE

\* An instance outside allow: key, err and ret are those of its last call,
\* count is the answer of the INCR of a call in progress.
InstIdle == [pc |-> "idle", key |-> 0, count |-> 0, err |-> Nil, ret |-> TRUE]

\* The requests of one window of a key: how many were decided, how many were
\* allowed, by which instances.
NoWindow == [n |-> 0, allowed |-> 0, by |-> {}]

\* The default limit for one key and the small limit for every key over a
\* live Redis; the small limit for one key over a Redis whose commands may fail.
DistConfigs ==
    { [requestsPerMinute |-> DefaultRequestsPerMinute, keys |-> { 1 }, live |-> TRUE],
      [requestsPerMinute |-> SmallRate, keys |-> RLKeys, live |-> TRUE],
      [requestsPerMinute |-> SmallRate, keys |-> { 1 }, live |-> FALSE] }

\* NewRedisRateLimiter in every instance, over an empty Redis that is live
\* (answers every command) or not.
InitDist ==
    /\ store = [w \in Worlds |-> EmptyDB]
    /\ cache = [w \in Worlds |-> EmptyRedis]
    /\ proc = [w \in Worlds |-> [p \in Procs |-> Idle]]
    /\ env = NoEnv
    /\ calls = [started |-> 0, creates |-> 0]
    /\ codec = <<>>
    /\ \E config \in DistConfigs :
          rl = [config |-> config, live |-> config.live,
                counters |-> NoCounters,
                ttl |-> [k \in RLKeys |-> FALSE],
                inst |-> [i \in Instances |-> InstIdle],
                win |-> [k \in RLKeys |-> NoWindow],
                ended |-> 0]

\* Whether the next Redis command fails.
CommandFails == IF rl.live THEN { FALSE } ELSE BOOLEAN

\* The window of key k after instance i returned ret.
Decided(w, i, ret) ==
    [n |-> w.n + 1, allowed |-> w.allowed + (IF ret THEN 1 ELSE 0), by |-> w.by \cup { i }]

\* allow up to the INCR: a failed command may or may not have been applied by
\* the server; allow returns at once unless the count is 1.
DistIncr(i, k) ==
    /\ rl.inst[i].pc = "idle"
    /\ k \in rl.config.keys
    /\ rl.win[k].n < rl.config.requestsPerMinute + MaxOver
    /\ \E fail \in CommandFails, applied \in BOOLEAN :
         /\ ~fail => applied
         /\ LET counters == IF applied THEN Incr(rl.counters, k) ELSE rl.counters
                err == IF fail THEN "ErrRedis" ELSE Nil
                count == IF fail THEN 0 ELSE counters[k]
                ret == redisAllowed(count, err, rl.config.requestsPerMinute)
            IN IF ~fail /\ count = 1
                 THEN rl' = [rl EXCEPT !.counters = counters,
                                       !.inst[i] = [pc |-> "expire", key |-> k, count |-> count,
                                                    err |-> err, ret |-> TRUE]]
                 ELSE rl' = [rl EXCEPT !.counters = counters,
                                       !.inst[i] = [pc |-> "idle", key |-> k, count |-> 0,
                                                    err |-> err, ret |-> ret],
                                       !.win[k] = Decided(@, i, ret)]
    /\ UNCHANGED <<store, cache, proc, env, calls, codec>>

\* if count == 1 { r.client.Expire(...) } (its error is dropped), then the
\* decision of allow.
DistExpire(i) ==
    /\ rl.inst[i].pc = "expire"
    /\ \E fail \in CommandFails :
         LET k == rl.inst[i].key
             ret == redisAllowed(rl.inst[i].count, Nil, rl.config.requestsPerMinute)
         IN rl' = [rl EXCEPT !.ttl[k] = @ \/ ~fail,
                             !.inst[i] = [@ EXCEPT !.pc = "idle", !.count = 0, !.ret = ret],
                             !.win[k] = Decided(@, i, ret)]
    /\ UNCHANGED <<store, cache, proc, env, calls, codec>>

\* cache.RateLimitWindow has passed since EXPIRE: Redis drops the counter and
\* the next window of the key begins.
DistWindowEnd(k) ==
    /\ rl.ttl[k] /\ rl.counters[k] > 0
    /\ rl.ended < MaxWindows
    /\ rl' = [rl EXCEPT !.counters[k] = 0, !.ttl[k] = FALSE, !.win[k] = NoWindow,
                        !.ended = @ + 1]
    /\ UNCHANGED <<store, cache, proc, env, calls, codec>>

NextDist ==
    \/ \E i \in Instances, k \in RLKeys : DistIncr(i, k)
    \/ \E i \in Instances : DistExpire(i)
    \/ \E k \in RLKeys : DistWindowEnd(k)

SpecDist == InitDist /\ [][NextDist]_vars

\* ------------------------------------------------------------------------
\* middleware.RateLimitMiddlewareWithCache: the choice of the limiter, once
\* per process, and the handler it returns
\* ------------------------------------------------------------------------
\* Calls of RateLimitMiddlewareWithCache in one process.
MaxConstructions == 3

\* The cache.Cache a caller passes: none, cache.noOpCache, cache.redisCache.
Clients == { "nil", "noop", "redis" }

TestValue == "test"

\* config of rateLimiterOnce.Do.
MWConfig == [RequestsPerMinute |-> DefaultRequestsPerMinute, BurstSize |-> DefaultBurstSize]

\* cacheClient.Set(ctx, testKey, testValue, time.Second) of the probe.
probeSet(client, up) ==
    CASE client = "noop" -> { Nil }
      [] client = "redis" -> IF up THEN { Nil } ELSE { "ErrRedis" }
      [] OTHER -> { Nil }

\* cacheClient.Get(ctx, testKey) after a Set that succeeded: the no-op cache
\* misses; Redis answers the value, or fails when it went away, or misses
\* when the key (TTL one second) has run out, or answers what another writer
\* put there.
probeGet(client) ==
    CASE client = "noop" -> { [err |-> "ErrCacheMiss", val |-> ""] }
      [] client = "redis" -> { [err |-> Nil, val |-> TestValue],
                               [err |-> Nil, val |-> "other"],
                               [err |-> "ErrCacheMiss", val |-> ""],
                               [err |-> "ErrRedis", val |-> ""] }
      [] OTHER -> { [err |-> Nil, val |-> ""] }

\* A variant that takes every cache whose Set succeeds for a live Redis.
selectsRedisOnSet(client, setErr, got) == client # "nil" /\ setErr = Nil

\* The branch of rateLimiterOnce.Do that makes the RedisRateLimiter.
selectsRedis(client, setErr, got) ==
    IF client # "nil"
      THEN IF setErr = Nil
             THEN got.err = Nil /\ got.val = TestValue
             ELSE FALSE
      ELSE FALSE

\* A variant of sync.Once that runs the function on every call.
runsEveryTime(done) == TRUE

\* sync.Once.Do runs the function when no call has run it before.
runs(done) == ~done

NoProbe == [client |-> "none", set |-> Nil, get |-> [err |-> Nil, val |-> ""]]

\* The process before main or any other caller has built the middleware.
InitMW ==
    /\ store = [w \in Worlds |-> EmptyDB]
    /\ cache = [w \in Worlds |-> EmptyRedis]
    /\ proc = [w \in Worlds |-> [p \in Procs |-> Idle]]
    /\ env = NoEnv
    /\ calls = [started |-> 0, creates |-> 0]
    /\ codec = <<>>
    /\ \E up \in BOOLEAN :
          rl = [up |-> up,
                app |-> [started |-> FALSE, redis |-> FALSE],
                once |-> FALSE, useRedis |-> FALSE,
                made |-> [memory |-> 0, redis |-> 0],
                probe |-> NoProbe, passed |-> {}, ctors |-> 0,
                has |-> FALSE, bucket |-> newEntry(MWConfig, 0),
                counter |-> 0,
                n |-> 0, out |-> [n |-> 0, allowed |-> 0], status |-> 0]

\* The state after RateLimitMiddlewareWithCache(client).
construct(r, client, setErr, got) ==
    LET redis == selectsRedis(client, setErr, got)
        counted == [r EXCEPT !.ctors = @ + 1, !.passed = @ \cup { client }]
    IN IF runs(r.once)
         THEN [counted EXCEPT !.once = TRUE, !.useRedis = redis,
                              !.made = IF redis THEN [@ EXCEPT !.redis = @ + 1]
                                                ELSE [@ EXCEPT !.memory = @ + 1],
                              !.probe = [client |-> client, set |-> setErr, get |-> got],
                              !.has = FALSE, !.bucket = newEntry(MWConfig, 0)]
         ELSE counted

\* main: connectRedis leaves a client when REDIS_ENABLED is true and the ping
\* succeeds; the cache client goes to the container, the router gets
\* middleware.RateLimitMiddleware(), which is RateLimitMiddlewareWithCache(nil).
Main(enabled) ==
    /\ rl.ctors = 0 /\ ~rl.app.started
    /\ rl' = [construct(rl, "nil", Nil, [err |-> Nil, val |-> ""])
                EXCEPT !.app = [started |-> TRUE, redis |-> enabled /\ rl.up]]
    /\ UNCHANGED <<store, cache, proc, env, calls, codec>>

\* RateLimitMiddlewareWithCache(client) called by any code of the process.
Construct(client) ==
    /\ rl.ctors < MaxConstructions
    /\ \E setErr \in probeSet(client, rl.up), got \in probeGet(client) :
          rl' = construct(rl, client, setErr, got)
    /\ UNCHANGED <<store, cache, proc, env, calls, codec>>

\* The handler serves one request of the client IP: the Redis limiter when
\* useRedis && globalRedisRateLimiter != nil, the in-memory limiter otherwise;
\* 429 when the limiter refuses.
Handle ==
    /\ rl.ctors > 0
    /\ rl.n < DefaultRequestsPerMinute + MaxOver
    /\ IF rl.useRedis /\ rl.made.redis > 0
         THEN LET err == IF rl.up THEN Nil ELSE "ErrRedis"
                  count == IF rl.up THEN rl.counter + 1 ELSE 0
                  allowed == redisAllowed(count, err, MWConfig.RequestsPerMinute)
              IN rl' = [rl EXCEPT !.counter = IF rl.up THEN count ELSE @,
                                  !.n = @ + 1,
                                  !.out = IF rl.up THEN @
                                          ELSE [n |-> @.n + 1,
                                                allowed |-> @.allowed + (IF allowed THEN 1 ELSE 0)],
                                  !.status = IF allowed THEN 200 ELSE 429]
         ELSE LET entry == IF rl.has THEN rl.bucket ELSE newEntry(MWConfig, 0)
                  refilled == refill(entry, MWConfig, 0)
              IN rl' = [rl EXCEPT !.has = TRUE, !.bucket = take(refilled),
                                  !.n = @ + 1,
                                  !.status = IF refilled.tokens > 0 THEN 200 ELSE 429]
    /\ UNCHANGED <<store, cache, proc, env, calls, codec>>

\* Redis goes away while the process runs, and comes back.
RedisDown ==
    /\ rl.up
    /\ rl' = [rl EXCEPT !.up = FALSE]
    /\ UNCHANGED <<store, cache, proc, env, calls, codec>>

RedisUp ==
    /\ ~rl.up
    /\ rl' = [rl EXCEPT !.up = TRUE]
    /\ UNCHANGED <<store, cache, proc, env, calls, codec>>

NextMW ==
    \/ \E enabled \in BOOLEAN : Main(enabled)
    \/ \E client \in Clients : Construct(client)
    \/ Handle
    \/ RedisDown
    \/ RedisUp

SpecMW == InitMW /\ [][NextMW]_vars

\* ------------------------------------------------------------------------
\* cache.noOpCache: the cache of a deployment without Redis
\* ------------------------------------------------------------------------
\* Calls in a row on one noOpCache.
MaxNoopCalls == 2

\* The methods of cache.Cache.
CacheMethods ==
    { "GetUserByID", "SetUserByID", "GetUserByEmail", "SetUserByEmail",
      "DeleteUserByID", "DeleteUserByEmail", "DeleteUser",
      "IncrementRateLimit", "GetRateLimit", "ResetRateLimit",
      "Get", "Set", "Delete", "Exists", "Ping" }

\* What a method returns, with the zero value in the places it does not
\* return: (*models.User, error), (string, error), (int, error), (bool, error)
\* or error.
NoopResult(err) == [user |-> NoUser, val |-> "", n |-> 0, ok |-> FALSE, err |-> err]

\* A variant whose Get answers the empty string without an error.
noOpCacheEmptyHit(method, key) ==
    CASE method \in { "GetUserByID", "GetUserByEmail" } -> NoopResult("ErrCacheMiss")
      [] OTHER -> NoopResult(Nil)

\* noOpCache's methods: none reads its arguments or keeps anything.
noOpCache(method, key) ==
    CASE method \in { "GetUserByID", "GetUserByEmail", "Get" } -> NoopResult("ErrCacheMiss")
      [] method \in { "SetUserByID", "SetUserByEmail", "DeleteUserByID",
                      "DeleteUserByEmail", "DeleteUser", "ResetRateLimit",
                      "Set", "Delete", "Ping" } -> NoopResult(Nil)
      [] method \in { "IncrementRateLimit", "GetRateLimit" } -> [NoopResult(Nil) EXCEPT !.n = 0]
      [] method = "Exists" -> [NoopResult(Nil) EXCEPT !.ok = FALSE]

\* NewNoOpCache(): no call made yet; codec is the list of the calls made and
\* what they returned.
InitNoop ==
    /\ store = [w \in Worlds |-> EmptyDB]
    /\ cache = [w \in Worlds |-> EmptyRedis]
    /\ proc = [w \in Worlds |-> [p \in Procs |-> Idle]]
    /\ env = NoEnv
    /\ calls = [started |-> 0, creates |-> 0]
    /\ rl = <<>>
    /\ codec = <<>>

\* One method called with one key (an id, or the key or email of that number).
NoopCall(method, key) ==
    /\ Len(codec) < MaxNoopCalls
    /\ codec' = Append(codec, [method |-> method, key |-> key, ret |-> noOpCache(method, key)])
    /\ UNCHANGED <<store, cache, proc, env, calls, rl>>

NextNoop == \E method \in CacheMethods, key \in Ids : NoopCall(method, key)

SpecNoop == InitNoop /\ [][NextNoop]_vars

\* ------------------------------------------------------------------------
\* middleware.RateLimiter: rl.mu and the entries' mu, one step per lock
\* operation
\* ------------------------------------------------------------------------
\* Holder of a mutex: nobody, a goroutine in allow, or the cleanup goroutine.
Unlocked == 0

Sweeper == MaxGoroutines + 1

LockConfig == [RequestsPerMinute |-> DefaultRequestsPerMinute, BurstSize |-> SmallBurst]

\* How long ago an entry was updated when allow reads the clock: not at all,
\* or a minute.
Elapsed == { 0, TicksPerMinute }

OutsideAllow == [pc |-> "idle", key |-> 0, entry |-> NoEntry, ret |-> FALSE]

\* NewRateLimiter: an empty map, the cleanup goroutine waiting for its ticker.
InitLocks ==
    /\ store = [w \in Worlds |-> EmptyDB]
    /\ cache = [w \in Worlds |-> EmptyRedis]
    /\ proc = [w \in Worlds |-> [p \in Procs |-> Idle]]
    /\ env = NoEnv
    /\ calls = [started |-> 0, creates |-> 0]
    /\ codec = <<>>
    /\ rl = [config |-> LockConfig,
             mu |-> Unlocked,
             entries |-> [k \in RLKeys |-> NoEntry],
             heap |-> [a \in Addrs |-> newEntry(LockConfig, 0)],
             emu |-> [a \in Addrs |-> Unlocked],
             g |-> [g \in Goroutines |-> OutsideAllow],
             sweep |-> [pc |-> "wait", todo |-> {}, key |-> 0]]

\* A request of key k enters allow in goroutine g.
AllowCall(g, k) ==
    /\ rl.g[g].pc = "idle"
    /\ rl' = [rl EXCEPT !.g[g] = [pc |-> "lock", key |-> k, entry |-> NoEntry, ret |-> FALSE]]
    /\ UNCHANGED <<store, cache, proc, env, calls, codec>>

\* rl.mu.Lock() of allow.
AllowLockMu(g) ==
    /\ rl.g[g].pc = "lock"
    /\ rl.mu = Unlocked
    /\ rl' = [rl EXCEPT !.mu = g, !.g[g].pc = "lookup"]
    /\ UNCHANGED <<store, cache, proc, env, calls, codec>>

\* A variant of the section under rl.mu that returns without rl.mu.Unlock().
lookupKeepingMu(r, g) ==
    LET k == r.g[g].key IN
    IF r.entries[k] # NoEntry
      THEN [r EXCEPT !.g[g].entry = r.entries[k], !.g[g].pc = "lockEntry"]
      ELSE LET a == Min(FreeAddrs) IN
           [r EXCEPT !.entries[k] = a, !.heap[a] = newEntry(r.config, 0),
                     !.g[g].entry = a, !.g[g].pc = "lockEntry"]

\* entry, exists := rl.entries[ip]; make and store the entry when there is
\* none; rl.mu.Unlock().
lookup(r, g) ==
    LET k == r.g[g].key IN
    IF r.entries[k] # NoEntry
      THEN [r EXCEPT !.mu = Unlocked, !.g[g].entry = r.entries[k], !.g[g].pc = "lockEntry"]
      ELSE LET a == Min(FreeAddrs) IN
           [r EXCEPT !.mu = Unlocked,
                     !.entries[k] = a, !.heap[a] = newEntry(r.config, 0),
                     !.g[g].entry = a, !.g[g].pc = "lockEntry"]

AllowLookupUnlock(g) ==
    /\ rl.g[g].pc = "lookup"
    /\ rl' = lookup(rl, g)
    /\ UNCHANGED <<store, cache, proc, env, calls, codec>>

\* entry.mu.Lock() of allow.
AllowLockEntry(g) ==
    /\ rl.g[g].pc = "lockEntry"
    /\ rl.emu[rl.g[g].entry] = Unlocked
    /\ rl' = [rl EXCEPT !.emu[rl.g[g].entry] = g, !.g[g].pc = "decide"]
    /\ UNCHANGED <<store, cache, proc, env, calls, codec>>

\* Refill, take a token or refuse, return; the deferred entry.mu.Unlock().
\* Time is kept relative to the entry's last update, and an entry no longer in
\* the map is garbage once the goroutine returns.
AllowDecide(g) ==
    /\ rl.g[g].pc = "decide"
    /\ \E elapsed \in Elapsed :
          LET a == rl.g[g].entry
              refilled == refill(rl.heap[a], rl.config, elapsed)
              taken == [take(refilled) EXCEPT !.lastUpdate = 0, !.n = 0, !.allowed = 0]
          IN rl' = [rl EXCEPT !.heap[a] = IF \E k \in RLKeys : rl.entries[k] = a
                                            THEN taken
                                            ELSE newEntry(rl.config, 0),
                              !.emu[a] = Unlocked,
                              !.g[g] = [OutsideAllow EXCEPT !.ret = refilled.tokens > 0]]
    /\ UNCHANGED <<store, cache, proc, env, calls, codec>>

\* cleanup: the ticker delivers, rl.mu.Lock(), the range over the map begins.
SweepLockMu ==
    /\ rl.sweep.pc = "wait"
    /\ rl.mu = Unlocked
    /\ rl' = [rl EXCEPT !.mu = Sweeper,
                        !.sweep = [pc |-> "range", key |-> 0,
                                   todo |-> { k \in RLKeys : rl.entries[k] # NoEntry }]]
    /\ UNCHANGED <<store, cache, proc, env, calls, codec>>

\* cleanup: the range yields an entry; entry.mu.Lock().
SweepLockEntry(k) ==
    /\ rl.sweep.pc = "range"
    /\ k \in rl.sweep.todo
    /\ rl.emu[rl.entries[k]] = Unlocked
    /\ rl' = [rl EXCEPT !.emu[rl.entries[k]] = Sweeper,
                        !.sweep.pc = "check", !.sweep.key = k]
    /\ UNCHANGED <<store, cache, proc, env, calls, codec>>

\* cleanup: delete the entry when it is older than ten minutes;
\* entry.mu.Unlock().
SweepCheck(old) ==
    /\ rl.sweep.pc = "check"
    /\ LET k == rl.sweep.key
           a == rl.entries[k]
           held == \E g \in Goroutines : rl.g[g].entry = a
       IN rl' = [rl EXCEPT !.emu[a] = Unlocked,
                           !.entries[k] = IF old THEN NoEntry ELSE @,
                           !.heap[a] = IF old /\ ~held THEN newEntry(rl.config, 0) ELSE @,
                           !.sweep = [pc |-> "range", key |-> 0, todo |-> @.todo \ { k }]]
    /\ UNCHANGED <<store, cache, proc, env, calls, codec>>

\* cleanup: the range is over; rl.mu.Unlock() and wait for the next tick.
SweepUnlockMu ==
    /\ rl.sweep.pc = "range"
    /\ rl.sweep.todo = {}
    /\ rl' = [rl EXCEPT !.mu = Unlocked, !.sweep = [pc |-> "wait", todo |-> {}, key |-> 0]]
    /\ UNCHANGED <<store, cache, proc, env, calls, codec>>

\* The steps of a goroutine inside allow, and of cleanup inside a sweep.
AllowStep(g) ==
    \/ AllowLockMu(g)
    \/ AllowLookupUnlock(g)
    \/ AllowLockEntry(g)
    \/ AllowDecide(g)

SweepStep ==
    \/ \E k \in RLKeys : SweepLockEntry(k)
    \/ \E old \in BOOLEAN : SweepCheck(old)
    \/ SweepUnlockMu

NextLocks ==
    \/ \E g \in Goroutines, k \in RLKeys : AllowCall(g, k)
    \/ \E g \in Goroutines : AllowStep(g)
    \/ SweepLockMu
    \/ SweepStep

\* The Go scheduler runs every runnable goroutine, and a sync.Mutex hands the
\* lock to a waiter that has waited long (starvation mode), so a goroutine
\* inside allow or inside a sweep that can step again and again does step.
\* Nothing obliges a request to arrive or the ticker to fire.
FairLocks ==
    /\ \A g \in Goroutines : SF_vars(AllowStep(g))
    /\ SF_vars(SweepStep)

SpecLocks == InitLocks /\ [][NextLocks]_vars /\ FairLocks

\* ------------------------------------------------------------------------
\* RateLimiter.allow with the accesses to an entry as separate steps: the
\* section under entry.mu reads the entry's fields and writes them back, and
\* only the mutex keeps two goroutines from doing so at once.
\* ------------------------------------------------------------------------
\* The calls of allow in a behaviour.
MaxSerCalls == 4

\* The clock readings of a call relative to the entry's last update: less
\* than the time one token takes to accrue.
SubPeriod == { 0, 1 }

NoCount == [n |-> 0, allowed |-> 0]

InitSer ==
    /\ store = [w \in Worlds |-> EmptyDB]
    /\ cache = [w \in Worlds |-> EmptyRedis]
    /\ proc = [w \in Worlds |-> [p \in Procs |-> Idle]]
    /\ env = NoEnv
    /\ calls = [started |-> 0, creates |-> 0]
    /\ codec = <<>>
    /\ rl = [config |-> LockConfig,
             mu |-> Unlocked,
             entries |-> [k \in RLKeys |-> NoEntry],
             heap |-> [a \in Addrs |-> newEntry(LockConfig, 0)],
             emu |-> [a \in Addrs |-> Unlocked],
             g |-> [g \in Goroutines |-> OutsideAllow],
             loc |-> [g \in Goroutines |-> newEntry(LockConfig, 0)],
             count |-> [k \in RLKeys |-> NoCount],
             sent |-> 0]

\* A request of key k enters allow in goroutine g.
SerCall(g, k) ==
    /\ rl.g[g].pc = "idle"
    /\ rl.sent < MaxSerCalls
    /\ rl' = [rl EXCEPT !.g[g] = [pc |-> "lock", key |-> k, entry |-> NoEntry, ret |-> FALSE],
                        !.sent = @ + 1]
    /\ UNCHANGED <<store, cache, proc, env, calls, codec>>

\* A variant of entry.mu.Lock() that does not wait for the mutex.
SerLockEntryNoWait(g) ==
    /\ rl.g[g].pc = "lockEntry"
    /\ rl' = [rl EXCEPT !.emu[rl.g[g].entry] = g, !.g[g].pc = "load"]
    /\ UNCHANGED <<store, cache, proc, env, calls, codec>>

\* entry.mu.Lock() of allow.
SerLockEntry(g) ==
    /\ rl.g[g].pc = "lockEntry"
    /\ rl.emu[rl.g[g].entry] = Unlocked
    /\ rl' = [rl EXCEPT !.emu[rl.g[g].entry] = g, !.g[g].pc = "load"]
    /\ UNCHANGED <<store, cache, proc, env, calls, codec>>

\* The reads of entry.lastUpdate and entry.tokens.
SerLoad(g) ==
    /\ rl.g[g].pc = "load"
    /\ rl' = [rl EXCEPT !.loc[g] = rl.heap[rl.g[g].entry], !.g[g].pc = "store"]
    /\ UNCHANGED <<store, cache, proc, env, calls, codec>>

\* The writes of entry.tokens and entry.lastUpdate from what was read, the
\* return and the deferred entry.mu.Unlock(); count records the decision.
SerStore(g) ==
    /\ rl.g[g].pc = "store"
    /\ \E elapsed \in SubPeriod :
          LET a == rl.g[g].entry
              k == rl.g[g].key
              refilled == refill(rl.loc[g], rl.config, elapsed)
              ok == refilled.tokens > 0
          IN rl' = [rl EXCEPT !.heap[a] = [take(refilled) EXCEPT !.n = 0, !.allowed = 0],
                              !.emu[a] = Unlocked,
                              !.loc[g] = newEntry(rl.config, 0),
                              !.count[k] = [n |-> @.n + 1,
                                            allowed |-> @.allowed + (IF ok THEN 1 ELSE 0)],
                              !.g[g] = [OutsideAllow EXCEPT !.ret = ok]]
    /\ UNCHANGED <<store, cache, proc, env, calls, codec>>

NextSer ==
    \/ \E g \in Goroutines, k \in RLKeys : SerCall(g, k)
    \/ \E g \in Goroutines : AllowLockMu(g)
    \/ \E g \in Goroutines : AllowLookupUnlock(g)
    \/ \E g \in Goroutines : SerLockEntry(g)
    \/ \E g \in Goroutines : SerLoad(g)
    \/ \E g \in Goroutines : SerStore(g)

SpecSer == InitSer /\ [][NextSer]_vars

\* ------------------------------------------------------------------------
\* RateLimiter with its cleanup goroutine over unbounded time.  The clock is
\* kept relative: now is 0 and lastUpdate of an entry is minus its age in
\* ticks, which stops growing once the entry is past the idle limit.
\* ------------------------------------------------------------------------
IdleLimit == IdleMinutes * TicksPerMinute

\* The ages told apart: none, one token period, exactly the idle limit, and
\* beyond it.
Ages == { 0, 2, IdleLimit, IdleLimit + 1 }

\* The clock advances by one token period or by the idle limit.
AgeSteps == { 2, IdleLimit }

\* A bucket of one token.
SweepConfig == [RequestsPerMinute |-> DefaultRequestsPerMinute, BurstSize |-> 1]

Aged(entry, d) ==
    [entry EXCEPT !.lastUpdate = IF d - @ > IdleLimit THEN 0 - (IdleLimit + 1) ELSE @ - d]

\* NewRateLimiter: an empty map and an empty ticker channel (due); removed
\* holds the keys the last sweep took out, stopped the keys whose clients have
\* sent their last request.
InitSweep ==
    /\ store = [w \in Worlds |-> EmptyDB]
    /\ cache = [w \in Worlds |-> EmptyRedis]
    /\ proc = [w \in Worlds |-> [p \in Procs |-> Idle]]
    /\ env = NoEnv
    /\ calls = [started |-> 0, creates |-> 0]
    /\ codec = <<>>
    /\ rl = [config |-> SweepConfig,
             entries |-> [k \in RLKeys |-> NoEntry],
             heap |-> [a \in Addrs |-> newEntry(SweepConfig, 0)],
             g |-> [g \in Goroutines |-> [pc |-> "idle", entry |-> NoEntry, ret |-> FALSE]],
             due |-> FALSE, removed |-> {}, stopped |-> {}]

\* The goroutines that serve requests while the sweeps are watched.
SweepGoroutines == { 1 }

\* allow, the section under rl.mu.
SweepAllowLookup(g, k) ==
    /\ g \in SweepGoroutines
    /\ rl.g[g].pc = "idle"
    /\ k \notin rl.stopped
    /\ IF rl.entries[k] # NoEntry
         THEN rl' = [rl EXCEPT !.g[g] = [pc |-> "entry", entry |-> rl.entries[k], ret |-> FALSE]]
         ELSE LET a == Min(FreeAddrs) IN
              rl' = [rl EXCEPT !.entries[k] = a,
                               !.heap[a] = newEntry(rl.config, 0),
                               !.g[g] = [pc |-> "entry", entry |-> a, ret |-> FALSE]]
    /\ UNCHANGED <<store, cache, proc, env, calls, codec>>

\* allow, the section under entry.mu; the decision is returned and not kept.
SweepAllowRefill(g) ==
    /\ rl.g[g].pc = "entry"
    /\ LET a == rl.g[g].entry
           refilled == refill(rl.heap[a], rl.config, 0)
       IN rl' = [rl EXCEPT !.heap[a] = IF \E k \in RLKeys : rl.entries[k] = a
                                         THEN [take(refilled) EXCEPT !.n = 0, !.allowed = 0]
                                         ELSE newEntry(rl.config, 0),
                           !.g[g] = [pc |-> "idle", entry |-> NoEntry, ret |-> FALSE]]
    /\ UNCHANGED <<store, cache, proc, env, calls, codec>>

\* A variant that also takes the entries exactly at the limit.
TooOldAtLimit(r) ==
    { k \in RLKeys : r.entries[k] # NoEntry /\ 0 - r.heap[r.entries[k]].lastUpdate >= IdleLimit }

\* The entries of the map that a sweep at this moment finds too old.
TooOld(r) ==
    { k \in RLKeys : r.entries[k] # NoEntry /\ 0 - r.heap[r.entries[k]].lastUpdate > IdleLimit }

\* The sweep: the entries past the limit leave the map.
sweep(r) ==
    LET held == { r.g[g].entry : g \in Goroutines } IN
    [r EXCEPT !.due = FALSE,
              !.removed = TooOld(r),
              !.entries = [k \in RLKeys |-> IF k \in TooOld(r) THEN NoEntry ELSE r.entries[k]],
              !.heap = [a \in Addrs |->
                           IF a \notin held /\ \E k \in TooOld(r) : r.entries[k] = a
                             THEN newEntry(r.config, 0) ELSE r.heap[a]]]

\* cleanup, one round of the loop over the ticker's channel.
SweepCleanup ==
    /\ rl.due
    /\ rl' = sweep(rl)
    /\ UNCHANGED <<store, cache, proc, env, calls, codec>>

\* The entries in the map or in the hands of a goroutine.
Live == { rl.entries[k] : k \in RLKeys } \cup { rl.g[g].entry : g \in Goroutines }

\* Time passes.
SweepTick(d) ==
    /\ \A a \in Live \cap Addrs : 0 - Aged(rl.heap[a], d).lastUpdate \in Ages
    /\ rl' = [rl EXCEPT !.heap = [a \in Addrs |->
                                    IF a \in Live THEN Aged(rl.heap[a], d) ELSE rl.heap[a]]]
    /\ UNCHANGED <<store, cache, proc, env, calls, codec>>

\* time.NewTicker(5 * time.Minute) sends on its channel, which holds one
\* tick; when the sweeps fall is left open.
SweepTicker ==
    /\ ~rl.due
    /\ rl' = [rl EXCEPT !.due = TRUE]
    /\ UNCHANGED <<store, cache, proc, env, calls, codec>>

\* The client of key k sends no more requests.
SweepStop(k) ==
    /\ k \notin rl.stopped
    /\ rl' = [rl EXCEPT !.stopped = @ \cup { k }]
    /\ UNCHANGED <<store, cache, proc, env, calls, codec>>

SweepTime == \E d \in AgeSteps : SweepTick(d)

SweepDecide == \E g \in Goroutines : SweepAllowRefill(g)

NextSweep ==
    \/ \E g \in Goroutines, k \in RLKeys : SweepAllowLookup(g, k)
    \/ SweepDecide
    \/ SweepTicker
    \/ SweepCleanup
    \/ SweepTime
    \/ \E k \in RLKeys : SweepStop(k)

\* Time passes, the ticker sends every five minutes, the cleanup goroutine
\* loops over the channel for ever, and a goroutine inside allow runs on.
FairSweep ==
    WF_vars(SweepTime) /\ WF_vars(SweepTicker) /\ WF_vars(SweepCleanup) /\ WF_vars(SweepDecide)

SpecSweep == InitSweep /\ [][NextSweep]_vars /\ FairSweep

\* ------------------------------------------------------------------------
\* RateLimiter watched over an interval: obs counts, from a moment chosen
\* freely, the requests allowed for each key.
\* ------------------------------------------------------------------------
\* The calls of allow and the advances of the clock in a behaviour.
MaxWinRequests == 4

MaxWinTicks == 2

\* The clock advances by one token period or past the idle limit.
WinSteps == { 2, IdleLimit + 1 }

NotWatching == [on |-> FALSE, start |-> 0, allowed |-> [k \in RLKeys |-> 0]]

InitWin ==
    /\ store = [w \in Worlds |-> EmptyDB]
    /\ cache = [w \in Worlds |-> EmptyRedis]
    /\ proc = [w \in Worlds |-> [p \in Procs |-> Idle]]
    /\ env = NoEnv
    /\ calls = [started |-> 0, creates |-> 0]
    /\ codec = <<>>
    /\ rl = [config |-> LockConfig,
             entries |-> [k \in RLKeys |-> NoEntry],
             heap |-> [a \in Addrs |-> newEntry(LockConfig, 0)],
             g |-> [g \in Goroutines |-> OutsideAllow],
             now |-> 0, lastSweep |-> 0, ticks |-> 0, sent |-> 0,
             obs |-> NotWatching]

\* allow, the section under rl.mu.
WinLookup(g, k) ==
    /\ rl.g[g].pc = "idle"
    /\ rl.sent < MaxWinRequests
    /\ IF rl.entries[k] # NoEntry
         THEN rl' = [rl EXCEPT !.g[g] = [pc |-> "entry", key |-> k,
                                         entry |-> rl.entries[k], ret |-> FALSE],
                               !.sent = @ + 1]
         ELSE LET a == Min(FreeAddrs) IN
              rl' = [rl EXCEPT !.entries[k] = a,
                               !.heap[a] = newEntry(rl.config, rl.now),
                               !.g[g] = [pc |-> "entry", key |-> k, entry |-> a, ret |-> FALSE],
                               !.sent = @ + 1]
    /\ UNCHANGED <<store, cache, proc, env, calls, codec>>

\* allow, the section under entry.mu.  An entry that the map no longer holds
\* is garbage once its last holder returns.
WinDecide(g) ==
    /\ rl.g[g].pc = "entry"
    /\ LET a == rl.g[g].entry
           k == rl.g[g].key
           refilled == refill(rl.heap[a], rl.config, rl.now)
           ok == refilled.tokens > 0
           kept == \/ \E j \in RLKeys : rl.entries[j] = a
                   \/ \E h \in Goroutines \ { g } : rl.g[h].entry = a
       IN rl' = [rl EXCEPT !.heap[a] = IF kept THEN [take(refilled) EXCEPT !.n = 0, !.allowed = 0]
                                               ELSE newEntry(rl.config, 0),
                           !.g[g] = [OutsideAllow EXCEPT !.ret = ok],
                           !.obs.allowed[k] = IF rl.obs.on /\ ok THEN @ + 1 ELSE @]
    /\ UNCHANGED <<store, cache, proc, env, calls, codec>>

\* A variant of the sweep that leaves alone the entries a goroutine holds.
WinCleanupSparingHeld ==
    /\ rl.now - rl.lastSweep >= CleanupMinutes * TicksPerMinute
    /\ LET held == { rl.g[g].entry : g \in Goroutines }
           idle == { k \in RLKeys :
                        /\ rl.entries[k] # NoEntry
                        /\ rl.entries[k] \notin held
                        /\ rl.now - rl.heap[rl.entries[k]].lastUpdate > IdleLimit }
       IN rl' = [rl EXCEPT !.lastSweep = rl.now,
                           !.entries = [k \in RLKeys |->
                               IF k \in idle THEN NoEntry ELSE rl.entries[k]],
                           !.heap = [a \in Addrs |->
                               IF \E k \in idle : rl.entries[k] = a
                                 THEN newEntry(rl.config, 0) ELSE rl.heap[a]]]
    /\ UNCHANGED <<store, cache, proc, env, calls, codec>>

\* cleanup, one delivery of the ticker.
WinCleanup ==
    /\ rl.now - rl.lastSweep >= CleanupMinutes * TicksPerMinute
    /\ LET held == { rl.g[g].entry : g \in Goroutines }
           idle == { k \in RLKeys :
                        /\ rl.entries[k] # NoEntry
                        /\ rl.now - rl.heap[rl.entries[k]].lastUpdate > IdleLimit }
       IN rl' = [rl EXCEPT !.lastSweep = rl.now,
                           !.entries = [k \in RLKeys |->
                               IF k \in idle THEN NoEntry ELSE rl.entries[k]],
                           !.heap = [a \in Addrs |->
                               IF a \notin held /\ \E k \in idle : rl.entries[k] = a
                                 THEN newEntry(rl.config, 0) ELSE rl.heap[a]]]
    /\ UNCHANGED <<store, cache, proc, env, calls, codec>>

WinTick(d) ==
    /\ rl.ticks < MaxWinTicks
    /\ rl' = [rl EXCEPT !.now = @ + d, !.ticks = @ + 1]
    /\ UNCHANGED <<store, cache, proc, env, calls, codec>>

\* The interval watched begins.
WinObserve ==
    /\ ~rl.obs.on
    /\ rl' = [rl EXCEPT !.obs = [NotWatching EXCEPT !.on = TRUE, !.start = rl.now]]
    /\ UNCHANGED <<store, cache, proc, env, calls, codec>>

NextWin ==
    \/ \E g \in Goroutines, k \in RLKeys : WinLookup(g, k)
    \/ \E g \in Goroutines : WinDecide(g)
    \/ WinCleanup
    \/ \E d \in WinSteps : WinTick(d)
    \/ WinObserve

SpecWin == InitWin /\ [][NextWin]_vars

\* ------------------------------------------------------------------------
\* Properties of the cache-aside protocol
\* ------------------------------------------------------------------------
Reads == { "GetUserByID", "GetUserByEmail" }

Range(f) == { f[i] : i \in DOMAIN f }

Hit(user) == [err |-> Nil, user |-> user]

\* Goroutine p of world 1 has returned from a successful call of op.
Returned(p, op) ==
    proc[1][p].op = op /\ proc[1][p].pc = "done" /\ proc[1][p].ret.err = Nil

\* An UpdateUser that ran beside reads only has returned and no other call is
\* under way.
QuietAfterUpdate(p) ==
    /\ Returned(p, "UpdateUser")
    /\ Range(proc[1][p].overlap) \subseteq Reads
    /\ \A q \in Procs \ { p } : ~InFlight(proc[1][q])
    /\ proc[1][p].pre # NoRow
    /\ Marshal(proc[1][p].pre) # Marshal(proc[1][p].ret.user)

\* C1: once UpdateUser has returned and every read that overlapped it has
\* returned, neither cache key of the user (by id, by old or new email) holds
\* the pre-update record.
C1_NoStaleEntryAfterUpdate ==
    \A p \in Procs :
       QuietAfterUpdate(p) =>
          \A k \in { idKey(proc[1][p].id), emailKey(proc[1][p].pre.Email),
                     emailKey(proc[1][p].ret.user.Email) } :
             cache[1][k] # Marshal(proc[1][p].pre)

\* Goroutine q has returned from a successful GetUserByID that overlapped the
\* UpdateUser goroutine p is in (or has returned from), whose repository write
\* was acknowledged.
ReadBesideUpdate(p, q) ==
    /\ proc[1][p].op = "UpdateUser"
    /\ <<"repo", "Update", Nil>> \in Range(proc[1][p].log)
    /\ proc[1][p].pre # NoRow
    /\ "GetUserByID" \in Range(proc[1][p].overlap)
    /\ Returned(q, "GetUserByID")
    /\ proc[1][q].id = proc[1][p].id
    /\ proc[1][q].overlap = <<"UpdateUser">>

\* C2: a record returned to a reader that ran beside an update is exactly the
\* pre-update record or exactly the post-update record.
C2_ReaderSeesPreOrPost ==
    \A p, q \in Procs :
       ReadBesideUpdate(p, q) =>
          proc[1][q].ret.user \in { proc[1][p].pre, proc[1][p].user }

UserFields == { "ID", "FirstName", "Email", "PassHash", "Role" }

\* Record r takes one field that the update changed from the new record and
\* another from the old one.
Mixed(r, pre, post) ==
    \E f, g \in UserFields :
       /\ pre[f] # post[f] /\ pre[g] # post[g]
       /\ r[f] = post[f] /\ r[g] = pre[g]

\* No reader beside an update gets a cross of old and new field values.
ReaderNeverSeesMix ==
    \A p, q \in Procs :
       ReadBesideUpdate(p, q) => ~Mixed(proc[1][q].ret.user, proc[1][p].pre, proc[1][p].user)

\* C3: after a successful UpdateUser that changed the email, the cache read by
\* the old email misses, and the cache reads by the new email and by the id
\* return the updated record.
C3_EmailChangeCleanup ==
    \A p \in Procs :
       (/\ Returned(p, "UpdateUser")
        /\ proc[1][p].pre # NoRow
        /\ proc[1][p].ret.user.Email # proc[1][p].pre.Email)
       => /\ redisGetUserByEmail(cache[1], proc[1][p].pre.Email) = CacheMiss
          /\ redisGetUserByEmail(cache[1], proc[1][p].ret.user.Email) = Hit(proc[1][p].ret.user)
          /\ redisGetUserByID(cache[1], proc[1][p].id) = Hit(proc[1][p].ret.user)

\* The same with the password hash left out of the comparison.
EmailChangeCleanupButHash ==
    \A p \in Procs :
       (/\ Returned(p, "UpdateUser")
        /\ proc[1][p].pre # NoRow
        /\ proc[1][p].ret.user.Email # proc[1][p].pre.Email)
       => /\ cache[1][emailKey(proc[1][p].pre.Email)] = RedisNil
          /\ cache[1][emailKey(proc[1][p].ret.user.Email)] = Marshal(proc[1][p].ret.user)
          /\ cache[1][idKey(proc[1][p].id)] = Marshal(proc[1][p].ret.user)

\* C4: after a successful DeleteUser the cache holds no entry of the user: the
\* reads by its id and by its email miss and no by-email key holds its record.
C4_DeleteCompleteness ==
    \A p \in Procs :
       Returned(p, "DeleteUser") =>
          /\ redisGetUserByID(cache[1], proc[1][p].id) = CacheMiss
          /\ redisGetUserByEmail(cache[1], proc[1][p].pre.Email) = CacheMiss
          /\ \A e \in EmailKeys :
                cache[1][emailKey(e)] # RedisNil =>
                   cache[1][emailKey(e)].user_id # proc[1][p].id

\* C5: after a successful CreateUser or GetUserByID of user U with no other
\* call under way, the cache reads by U.id and by U.email both return U's record.
C5_BothKeysPopulated ==
    \A p \in Procs :
       (/\ Returned(p, "CreateUser") \/ Returned(p, "GetUserByID")
        /\ \A q \in Procs \ { p } : ~InFlight(proc[1][q]) /\ proc[1][q].overlap = <<>>
        /\ proc[1][p].overlap = <<>>)
       => LET U == store[1].rows[proc[1][p].ret.user.ID] IN
          /\ U # NoRow
          /\ redisGetUserByID(cache[1], U.ID) = Hit(U)
          /\ redisGetUserByEmail(cache[1], U.Email) = Hit(U)

\* C6: a record written to the cache under a key and read back under the same
\* key is equal to the record written in every field.
C6_RoundTripExact ==
    codec.phase \in { "gotByID", "gotByEmail" } => codec.got = Hit(codec.u)

\* The call of goroutine p has returned in both worlds.
BothReturned(p) == proc[1][p].pc = "done" /\ proc[2][p].pc = "done"

\* C7: the service with the no-op cache and the service with a working Redis
\* return the same result to every call of a sequence and leave the same table.
C7_NoOpCacheIndistinguishable ==
    \A p \in Procs :
       BothReturned(p) => /\ proc[1][p].ret = proc[2][p].ret
                          /\ store[1] = store[2]

CacheErrors == { "ErrRedis", "ErrDecode", "ErrCacheMiss" }

\* C8: with any cache calls failing, every call returns what it returns when
\* each failed cache read is a miss and each failed cache write is dropped,
\* leaves the same table, and returns no cache error.
C8_CacheFailuresAbsorbed ==
    \A p \in Procs :
       BothReturned(p) => /\ proc[1][p].ret = proc[2][p].ret
                          /\ store[1] = store[2]
                          /\ proc[1][p].ret.err \notin CacheErrors

\* A call whose cache read met an entry it could not decode and whose later
\* cache write failed, and that answered from the database.
C8_Witness ==
    /\ BothReturned(1)
    /\ proc[1][1].op = "GetUserByID"
    /\ proc[1][1].log[1] = <<"cache", "GetUserByID", "ErrDecode">>
    /\ proc[1][1].faults # {}
    /\ proc[1][1].ret.err = Nil
    /\ proc[1][1].ret.user # NoUser

AckedWrites == { <<"repo", "Update", Nil>>, <<"repo", "Delete", Nil>> }

\* C9: in UpdateUser and DeleteUser a cache call is issued only after the
\* repository acknowledged the Update / Delete; when that write fails, the
\* call issues no cache call.
C9_CacheAfterStoreAck ==
    \A p \in Procs :
       LET log == proc[1][p].log IN
       proc[1][p].op \in { "UpdateUser", "DeleteUser" } =>
          /\ \A i \in DOMAIN log :
                log[i][1] = "cache" => \E j \in 1..(i - 1) : log[j] \in AckedWrites
          /\ (\E j \in DOMAIN log :
                 /\ log[j][1] = "repo" /\ log[j][2] \in { "Update", "Delete" }
                 /\ log[j][3] # Nil)
             => NumCalls(proc[1][p], "cache") = 0

\* An UpdateUser that changed the email has issued its four cache calls.
C9_Witness ==
    /\ Returned(1, "UpdateUser")
    /\ NumCalls(proc[1][1], "cache") = 4

\* ------------------------------------------------------------------------
\* Properties of the in-memory limiter
\* ------------------------------------------------------------------------
\* No whole token has accrued since the entry of key k was made.
NoRefillTime(k) ==
    /\ rl.entries[k] # NoEntry
    /\ (rl.now - rl.heap[rl.entries[k]].created) * rl.config.RequestsPerMinute < TicksPerMinute

NoneInFlight(k) == \A i \in Instances : ~(rl.inst[i].pc = "expire" /\ rl.inst[i].key = k)

\* C11: with a live counter store, whatever instances serve the requests of a
\* key in one window, at most requestsPerMinute of them are allowed; once all
\* have returned, min(n, requestsPerMinute) were allowed and the rest denied.
C11_SharedLimit ==
    rl.live =>
       \A k \in RLKeys :
          /\ rl.win[k].allowed <= rl.config.requestsPerMinute
          /\ NoneInFlight(k) =>
                rl.win[k].allowed = min(rl.win[k].n, rl.config.requestsPerMinute)

\* With a limit of 60 the 61st request of the window is denied, the others
\* having been served by both instances.
C11_Witness ==
    /\ rl.live
    /\ rl.config.requestsPerMinute = DefaultRequestsPerMinute
    /\ rl.win[1].by = Instances
    /\ rl.win[1].n = DefaultRequestsPerMinute + 1
    /\ rl.win[1].allowed = DefaultRequestsPerMinute
    /\ rl.counters[1] = DefaultRequestsPerMinute + 1
    /\ \E i \in Instances : rl.inst[i].pc = "idle" /\ ~rl.inst[i].ret

\* C12: a request whose increment of the counter failed is allowed, however
\* many requests the key has made.
C12_FailOpen ==
    \A i \in Instances :
       (rl.inst[i].pc = "idle" /\ rl.inst[i].err # Nil) => rl.inst[i].ret

\* The increment fails for a key that is over its limit and the request is
\* allowed.
C12_Witness ==
    \E i \in Instances :
       /\ rl.inst[i].pc = "idle" /\ rl.inst[i].err # Nil /\ rl.inst[i].ret
       /\ rl.counters[rl.inst[i].key] > rl.config.requestsPerMinute

\* ------------------------------------------------------------------------
\* Properties of the limiter selection
\* ------------------------------------------------------------------------
\* C13: when the Redis limiter is in use and Redis becomes unavailable while
\* the application runs, the requests of a key stay limited during the
\* outage: no more of them are let through than the configured budget of one
\* minute.
C13_LimitedDuringOutage ==
    rl.useRedis => rl.out.allowed <= MWConfig.RequestsPerMinute

\* C14: when the application is started by main with Redis enabled and
\* reachable, the limiter that serves requests is the Redis limiter.
C14_MainUsesRedis ==
    (rl.app.started /\ rl.app.redis /\ rl.n > 0) => (rl.useRedis /\ rl.made.redis > 0)

\* C15: the Redis limiter is chosen if and only if a cache client was passed
\* and the probe's Set and Get succeeded and the Get returned the value
\* written; with no client, with the no-op cache or with a failing Redis the
\* in-memory limiter is chosen, and it lets through a burst and no more.
C15_StrategySelection ==
    rl.once =>
       /\ rl.useRedis <=> /\ rl.probe.client # "nil"
                          /\ rl.probe.set = Nil
                          /\ rl.probe.get.err = Nil
                          /\ rl.probe.get.val = TestValue
       /\ rl.probe.client \in { "nil", "noop" } => ~rl.useRedis
       /\ (rl.probe.set # Nil \/ rl.probe.get.err # Nil) => ~rl.useRedis
       /\ ~rl.useRedis =>
             /\ rl.made.memory = 1
             /\ rl.has => rl.bucket.allowed = min(rl.bucket.n, MWConfig.BurstSize)
             /\ (rl.has /\ rl.bucket.n > MWConfig.BurstSize) => rl.status = 429

C15_Witness ==
    /\ rl.once /\ rl.probe.client = "noop" /\ rl.probe.set = Nil
    /\ ~rl.useRedis /\ rl.has
    /\ rl.bucket.n = MWConfig.BurstSize + 1
    /\ rl.bucket.allowed = MWConfig.BurstSize
    /\ rl.status = 429

\* C16: the choice is made exactly once per process: after the first
\* construction the strategy and the limiter never change, whatever later
\* constructions pass, and exactly one of the two limiters is ever made.
C16_SelectedOnce ==
    /\ [](rl.made.memory + rl.made.redis = (IF rl.once THEN 1 ELSE 0))
    /\ [](rl.ctors > 0 => rl.once)
    /\ [][rl.once => /\ rl'.once
                     /\ rl'.useRedis = rl.useRedis
                     /\ rl'.made = rl.made
                     /\ rl'.probe = rl.probe]_vars

C16_Witness ==
    /\ rl.ctors = MaxConstructions
    /\ rl.passed = Clients
    /\ rl.probe.client = "noop"
    /\ rl.made = [memory |-> 1, redis |-> 0]
    /\ rl.up /\ rl.n > 0

\* ------------------------------------------------------------------------
\* Properties of the no-op cache
\* ------------------------------------------------------------------------
\* C17: whatever was called before and with whatever key, the no-op cache's
\* Get, GetUserByID and GetUserByEmail report a miss, Exists reports false,
\* Set, Delete and the user writes and deletes succeed and change nothing,
\* IncrementRateLimit returns 0 without error, Ping succeeds, and no call
\* returns an error other than the miss.
C17_NullBackend ==
    \A i \in 1..Len(codec) :
       LET c == codec[i] IN
       /\ c.method \in { "Get", "GetUserByID", "GetUserByEmail" } =>
             c.ret.err = "ErrCacheMiss" /\ c.ret.user = NoUser /\ c.ret.val = ""
       /\ c.method = "Exists" => c.ret.err = Nil /\ ~c.ret.ok
       /\ c.method \in { "Set", "Delete", "SetUserByID", "SetUserByEmail",
                         "DeleteUserByID", "DeleteUserByEmail", "DeleteUser" } =>
             c.ret.err = Nil
       /\ c.method = "IncrementRateLimit" => c.ret.err = Nil /\ c.ret.n = 0
       /\ c.method = "Ping" => c.ret.err = Nil
       /\ c.ret.err \in { Nil, "ErrCacheMiss" }
       /\ cache = [w \in Worlds |-> EmptyRedis]

C17_Witness ==
    /\ Len(codec) = 2
    /\ codec[1].method = "Set" /\ codec[1].key = 1 /\ codec[1].ret.err = Nil
    /\ codec[2].method = "Get" /\ codec[2].key = 1 /\ codec[2].ret.err = "ErrCacheMiss"

\* ------------------------------------------------------------------------
\* Properties of the limiter's locks
\* ------------------------------------------------------------------------
\* A goroutine is inside allow, or cleanup inside a sweep.
Busy == (\E g \in Goroutines : rl.g[g].pc # "idle") \/ rl.sweep.pc # "wait"

\* C18: under fair scheduling every call of allow returns a decision, however
\* calls on the same or on different keys and the cleanup sweep interleave;
\* and the map lock and the entry locks never leave every goroutine waiting.
C18_AllowReturns ==
    /\ [](Busy => ENABLED (SweepStep \/ \E g \in Goroutines : AllowStep(g)))
    /\ \A g \in Goroutines : (rl.g[g].pc # "idle") ~> (rl.g[g].pc = "idle")

C18_Witness ==
    /\ rl.g[1].pc = "lock" /\ rl.g[2].pc = "lockEntry"
    /\ rl.g[1].key = rl.g[2].key
    /\ rl.sweep.pc = "check" /\ rl.sweep.key = rl.g[2].key
    /\ rl.mu = Sweeper /\ rl.emu[rl.g[2].entry] = Sweeper

\* ------------------------------------------------------------------------
\* Properties of a read that hits
\* ------------------------------------------------------------------------
\* The cache read of goroutine p's GetUserByID or GetUserByEmail happens in
\* this step and finds a record.
HitStep(p) ==
    /\ proc[1][p].pc \in { "GetIDCache", "GetEmailCache" }
    /\ proc[1][p]' # proc[1][p]
    /\ proc[1][p]'.log = <<<<"cache", proc[1][p].op, Nil>>>>

\* The record the cache holds under the key goroutine p reads.
Cached(p) ==
    IF proc[1][p].op = "GetUserByID"
      THEN redisGetUserByID(cache[1], proc[1][p].id)
      ELSE redisGetUserByEmail(cache[1], proc[1][p].email)

\* C19: a read that hits the cache returns the cached record in that very
\* step, without a call of the repository and without a cache write: the
\* table and the cache stay as they are and the call's only operation is the
\* cache read.
C19_HitReturnsAtOnce ==
    /\ [][\A p \in Procs :
            HitStep(p) => /\ proc[1][p]'.pc = "done"
                          /\ proc[1][p]'.ret = [user |-> Cached(p).user, err |-> Nil]
                          /\ store' = store
                          /\ cache' = cache]_vars
    /\ [](\A p \in Procs :
            (/\ proc[1][p].op \in Reads
             /\ proc[1][p].log # <<>>
             /\ proc[1][p].log[1] = <<"cache", proc[1][p].op, Nil>>) =>
               /\ proc[1][p].pc = "done"
               /\ Len(proc[1][p].log) = 1
               /\ proc[1][p].ret.err = Nil
               /\ proc[1][p].ret.user # NoUser)

C19_Witness ==
    \E p \in Procs :
       /\ proc[1][p].op = "GetUserByEmail" /\ proc[1][p].pc = "done"
       /\ proc[1][p].log = <<<<"cache", "GetUserByEmail", Nil>>>>
       /\ proc[1][p].ret.user # NoUser
       /\ proc[1][p].ret.user.ID = 1
       /\ store[1].rows[1] # NoRow
       /\ \E q \in Procs \ { p } : InFlight(proc[1][q])

\* ------------------------------------------------------------------------
\* Properties of creating and registering
\* ------------------------------------------------------------------------
\* CreateUser or Register of goroutine p takes its first step while the table
\* holds a row with the email of the request.
FirstStepOnTakenEmail(p) ==
    /\ proc[1][p].op \in { "CreateUser", "Register" }
    /\ proc[1][p].pc \in { "CreateExists", "RegExists" }
    /\ proc[1][p]' # proc[1][p]
    /\ repoExistsByEmail(store[1], proc[1][p].input.Email)

\* The call ends with the email-exists error, which the controller answers
\* with 409, and neither the table nor the cache changes.
RefusedAsTaken(p) ==
    /\ proc[1][p]'.pc = "done"
    /\ proc[1][p]'.ret = [user |-> NoUser, err |-> "ErrEmailExists"]
    /\ handleServiceError(proc[1][p]'.ret.err) = 409
    /\ Len(proc[1][p]'.log) = 1
    /\ store' = store
    /\ cache' = cache

FindStepOnMissingID(p) ==
    /\ proc[1][p].op = "GetUserByID" /\ proc[1][p].pc = "GetIDFind"
    /\ proc[1][p]'.pc # proc[1][p].pc
    /\ store[1].rows[proc[1][p].id] = NoRow

\* C21: GetUserByID for an id that is neither cached nor in the table returns
\* the not-found error, which the controller answers with 404; a failure of
\* the database is another error with another status; and in both cases the
\* call ends without a cache write.
C21_NotFoundNotCached ==
    [][\A p \in Procs :
         FindStepOnMissingID(p) =>
            LET c == proc[1][p]' IN
            /\ c.pc = "done" /\ c.ret.user = NoUser
            /\ Len(c.log) = 2 /\ c.log[1][1] = "cache" /\ c.log[2][1] = "repo"
            /\ cache' = cache /\ store' = store
            /\ IF 1 \in c.rfaults
                 THEN c.ret.err # "ErrUserNotFound" /\ handleServiceError(c.ret.err) = 500
                 ELSE c.ret.err = "ErrUserNotFound" /\ handleServiceError(c.ret.err) = 404]_vars

C21_Witness ==
    /\ proc[1][1].op = "GetUserByID" /\ proc[1][1].pc = "done" /\ proc[1][1].id = 2
    /\ proc[1][1].ret = [user |-> NoUser, err |-> "ErrUserNotFound"]
    /\ proc[1][1].log = <<<<"cache", "GetUserByID", "ErrCacheMiss">>,
                          <<"repo", "FindByID", "ErrUserNotFound">>>>
    /\ store[1].rows[1] # NoRow /\ store[1].rows[2] = NoRow
    /\ cache[1][idKey(2)] = RedisNil /\ cache[1][idKey(1)] # RedisNil

\* ------------------------------------------------------------------------
\* Properties of the by-email keys
\* ------------------------------------------------------------------------
\* C22: every by-email entry in the cache is keyed by the normalized email of
\* the record it holds, so spellings that differ in case or surrounding
\* whitespace share one entry.
C22_EmailKeysNormalized ==
    \A e \in EmailKeys :
       cache[1][emailKey(e)] \notin { RedisNil, Garbage } =>
          /\ e = normalizeEmail(e)
          /\ e = normalizeEmail(cache[1][emailKey(e)].email)

\* ------------------------------------------------------------------------
\* Properties of a delete beside reads
\* ------------------------------------------------------------------------
\* A DeleteUser that ran beside reads only has returned and no other call is
\* under way.
QuietAfterDelete(p) ==
    /\ Returned(p, "DeleteUser")
    /\ proc[1][p].overlap # <<>>
    /\ Range(proc[1][p].overlap) \subseteq Reads
    /\ \A q \in Procs \ { p } : ~InFlight(proc[1][q])

\* C23: once DeleteUser(id) and the reads that ran beside it have returned,
\* no cache key holds a record of the deleted user.
C23_NoEntryAfterDelete ==
    \A p \in Procs :
       QuietAfterDelete(p) =>
          \A k \in Keys :
             cache[1][k] \notin { RedisNil, Garbage } => cache[1][k].user_id # proc[1][p].id

\* ------------------------------------------------------------------------
\* Properties of the cache between calls
\* ------------------------------------------------------------------------
\* No call is under way in world 1.
AtRest == \A p \in Procs : proc[1][p].pc = "idle"

\* The entry under key k is the JSON of the row its user_id names.
Current(k) ==
    /\ cache[1][k] # Garbage
    /\ cache[1][k].user_id \in RowIds(store[1])
    /\ cache[1][k] = Marshal(store[1].rows[cache[1][k].user_id])

\* C24: between the calls of a sequential caller, with a working cache, every
\* by-id entry is the current row of that id and every by-email entry is the
\* current row of a user who has that email (in any spelling); no entry is of
\* a deleted user or of a superseded version.
C24_CoherentAtRest ==
    AtRest =>
       /\ \A i \in Ids :
             cache[1][idKey(i)] # RedisNil =>
                Current(idKey(i)) /\ cache[1][idKey(i)].user_id = i
       /\ \A e \in EmailKeys :
             cache[1][emailKey(e)] # RedisNil =>
                /\ Current(emailKey(e))
                /\ normalizeEmail(e) = cache[1][emailKey(e)].email

\* DeleteUser of goroutine p asks the repository, in this step, to find or to
\* delete an id the table does not hold.
DeleteStepOnMissingID(p) ==
    /\ proc[1][p].op = "DeleteUser" /\ proc[1][p].pc \in { "DelFind", "DelDelete" }
    /\ proc[1][p]'.pc # proc[1][p].pc
    /\ store[1].rows[proc[1][p].id] = NoRow

\* C25: DeleteUser of an id that is not in the table returns not-found and
\* makes no cache call: every cache key is as it was.
C25_DeleteMissingLeavesCache ==
    /\ [][\A p \in Procs :
            DeleteStepOnMissingID(p) =>
               /\ proc[1][p]'.pc = "done"
               /\ proc[1][p]'.ret = [user |-> NoUser, err |-> "ErrUserNotFound"]
               /\ handleServiceError(proc[1][p]'.ret.err) = 404
               /\ cache' = cache /\ store' = store]_vars
    /\ [](\A p \in Procs :
            (proc[1][p].op = "DeleteUser" /\ proc[1][p].pc = "done"
               /\ proc[1][p].ret.err = "ErrUserNotFound") =>
               NumCalls(proc[1][p], "cache") = 0)

C25_Witness ==
    \E p \in Procs :
       /\ proc[1][p].op = "DeleteUser" /\ proc[1][p].pc = "done"
       /\ proc[1][p].ret.err = "ErrUserNotFound"
       /\ proc[1][p].log = <<<<"repo", "FindByID", "ErrUserNotFound">>>>
       /\ store[1].rows[1] = NoRow /\ store[1].nextID = 2
       /\ cache[1][idKey(1)] # RedisNil /\ cache[1][emailKey(<<"a">>)] # RedisNil

\* ------------------------------------------------------------------------
\* Properties of failing writes
\* ------------------------------------------------------------------------
\* The call of goroutine p ends in this step with an error.
FailsNow(p, op) ==
    /\ proc[1][p].op = op /\ InFlight(proc[1][p])
    /\ proc[1][p]'.pc = "done" /\ proc[1][p]'.ret.err # Nil

\* C26: CreateUser makes its cache writes after userRepo.Create has succeeded
\* and not otherwise; a CreateUser that fails (invalid role, email taken,
\* database error) has made no cache call, and the step that ends it changes
\* neither the table nor the cache.
C26_CreateStoreFirst ==
    /\ [](\A p \in Procs :
            proc[1][p].op = "CreateUser" =>
               /\ \A i \in DOMAIN proc[1][p].log :
                     proc[1][p].log[i][1] = "cache" =>
                        \E j \in 1..(i - 1) : proc[1][p].log[j] = <<"repo", "Create", Nil>>
               /\ (proc[1][p].pc = "done" /\ proc[1][p].ret.err # Nil) =>
                     /\ NumCalls(proc[1][p], "cache") = 0
                     /\ <<"repo", "Create", Nil>> \notin Range(proc[1][p].log))
    /\ [][\A p \in Procs :
            FailsNow(p, "CreateUser") => store' = store /\ cache' = cache]_vars

C26_Witness ==
    /\ proc[1][1].op = "CreateUser" /\ proc[1][1].pc = "done"
    /\ proc[1][1].input.Email = <<"b">>
    /\ proc[1][1].ret.err = "ErrDB"
    /\ proc[1][1].log = <<<<"repo", "ExistsByEmail", Nil>>, <<"repo", "Create", "ErrDB">>>>
    /\ store[1].rows[1] # NoRow /\ store[1].rows[2] = NoRow
    /\ cache[1][idKey(1)] # RedisNil
    /\ cache[1][idKey(2)] = RedisNil /\ cache[1][emailKey(<<"b">>)] = RedisNil

\* Goroutine p takes a step of its UpdateUser, and the repository has not
\* acknowledged the update by the end of it.
UnsavedUpdateStep(p) ==
    /\ proc[1][p].op = "UpdateUser" /\ InFlight(proc[1][p])
    /\ proc[1][p]'.pc # proc[1][p].pc
    /\ <<"repo", "Update", Nil>> \notin Range(proc[1][p]'.log)

\* C27: an UpdateUser that fails (user not found, no fields, email taken,
\* invalid role, database error) leaves the table and the cache as they were
\* before the call: none of its steps changes either, and it makes no cache
\* call.
C27_FailedUpdateChangesNothing ==
    /\ [][\A p \in Procs :
            UnsavedUpdateStep(p) => store' = store /\ cache' = cache]_vars
    /\ [](\A p \in Procs :
            (proc[1][p].op = "UpdateUser" /\ proc[1][p].pc = "done"
               /\ proc[1][p].ret.err # Nil) =>
               /\ NumCalls(proc[1][p], "cache") = 0
               /\ <<"repo", "Update", Nil>> \notin Range(proc[1][p].log)
               /\ proc[1][p].ret.user = NoUser)

C27_Witness ==
    /\ proc[1][1].op = "UpdateUser" /\ proc[1][1].pc = "done" /\ proc[1][1].id = 1
    /\ proc[1][1].input.Email = Some(<<"b">>) /\ proc[1][1].input.Role = Some("root")
    /\ proc[1][1].ret.err = "ErrInvalidRole"
    /\ proc[1][1].log = <<<<"repo", "FindByID", Nil>>, <<"repo", "ExistsByEmail", Nil>>>>
    /\ store[1].rows[1] # NoRow /\ store[1].rows[1].Email = <<"a">>
    /\ cache[1][idKey(1)] = Marshal(store[1].rows[1])
    /\ cache[1][emailKey(<<"a">>)] = Marshal(store[1].rows[1])

\* ------------------------------------------------------------------------
\* Properties of undecodable cache content
\* ------------------------------------------------------------------------
\* The key the read of goroutine p looks up.
ReadKey(p) ==
    IF proc[1][p].op = "GetUserByID" THEN idKey(proc[1][p].id) ELSE emailKey(proc[1][p].email)

\* The cache read of goroutine p's GetUserByID or GetUserByEmail happens in
\* this step, on a key whose value cannot be decoded.
ReadsGarbage(p) ==
    /\ proc[1][p].pc \in { "GetIDCache", "GetEmailCache" }
    /\ proc[1][p]'.pc # proc[1][p].pc
    /\ cache[1][ReadKey(p)] = Garbage

\* C28: a cached value that cannot be decoded comes back from the cache as an
\* error, not as a hit; the read goes on to the repository and returns the
\* repository's record or its error, never anything made from the cached
\* value.
C28_UndecodableNeverReturned ==
    /\ [][\A p \in Procs :
            ReadsGarbage(p) =>
               /\ proc[1][p]'.pc \in { "GetIDFind", "GetEmailFind" }
               /\ proc[1][p]'.log[1][3] \in { "ErrDecode", "ErrRedis" }]_vars
    /\ [](\A p \in Procs :
            (/\ proc[1][p].op \in Reads /\ proc[1][p].pc = "done"
             /\ proc[1][p].log[1][3] = "ErrDecode") =>
               /\ Len(proc[1][p].log) >= 2 /\ proc[1][p].log[2][1] = "repo"
               /\ IF proc[1][p].log[2][3] = Nil
                    THEN /\ proc[1][p].ret.err = Nil
                         /\ proc[1][p].ret.user \in Range(store[1].rows)
                    ELSE proc[1][p].ret = [user |-> NoUser, err |-> proc[1][p].log[2][3]])

C28_Witness ==
    /\ proc[1][1].op = "GetUserByEmail" /\ proc[1][1].pc = "done"
    /\ proc[1][1].email = <<"a">>
    /\ proc[1][1].log[1] = <<"cache", "GetUserByEmail", "ErrDecode">>
    /\ proc[1][1].log[2] = <<"repo", "FindByEmail", Nil>>
    /\ proc[1][1].faults = {}
    /\ proc[1][1].ret.user = store[1].rows[1]
    /\ cache[1][emailKey(<<"a">>)] = Marshal(store[1].rows[1])

\* ------------------------------------------------------------------------
\* Properties of the invalidation of both keys
\* ------------------------------------------------------------------------
\* Goroutine p takes the step at label pc in this step.
StepsAt(p, pc) == proc[1][p].pc = pc /\ proc[1][p]'.pc # pc

\* The last entry of the call log of goroutine p after this step.
LastLogged(p) == proc[1][p]'.log[Len(proc[1][p]'.log)]

\* C29: the removal of both keys of a user attempts each key whatever happens
\* to the other. cache.DeleteUser names both keys in its one command: when the
\* command is carried out both keys are gone, and when it fails no key was
\* left out of the attempt. In the branch of UpdateUser for a changed e-mail,
\* the removal of the id key follows the removal of the old e-mail key whether
\* or not that one failed, and is carried out when Redis answers.
C29_BothRemovalsAttempted ==
    /\ [][\A p \in Procs :
            /\ (StepsAt(p, "DelInvalidate") \/ StepsAt(p, "UpdDeleteUser")) =>
                  /\ LastLogged(p)[2] = "DeleteUser"
                  /\ IF LastLogged(p)[3] = Nil
                       THEN /\ cache'[1][idKey(proc[1][p].id)] = RedisNil
                            /\ cache'[1][emailKey(proc[1][p].user.Email)] = RedisNil
                       ELSE cache'[1] = cache[1]
            /\ StepsAt(p, "UpdDelOldEmail") =>
                  /\ proc[1][p]'.pc = "UpdDelID"
                  /\ LastLogged(p)[2] = "DeleteUserByEmail"
            /\ StepsAt(p, "UpdDelID") =>
                  /\ LastLogged(p)[2] = "DeleteUserByID"
                  /\ LastLogged(p)[3] = Nil => cache'[1][idKey(proc[1][p].id)] = RedisNil]_vars
    /\ [](\A p \in Procs : \A i \in 1..Len(proc[1][p].log) :
            (/\ proc[1][p].op = "UpdateUser"
             /\ proc[1][p].log[i][2] = "DeleteUserByEmail"
             /\ proc[1][p].pc # "UpdDelID") =>
               /\ i < Len(proc[1][p].log)
               /\ proc[1][p].log[i + 1][2] = "DeleteUserByID")

\* The old e-mail key could not be removed and is still there; the id key was
\* removed all the same.
C29_Witness ==
    /\ proc[1][1].op = "UpdateUser" /\ proc[1][1].pc = "UpdSetID"
    /\ Len(proc[1][1].log) >= 2
    /\ proc[1][1].log[Len(proc[1][1].log) - 1] = <<"cache", "DeleteUserByEmail", "ErrRedis">>
    /\ proc[1][1].log[Len(proc[1][1].log)] = <<"cache", "DeleteUserByID", Nil>>
    /\ cache[1][emailKey(proc[1][1].oldEmail)] # RedisNil
    /\ cache[1][idKey(proc[1][1].id)] = RedisNil

\* ------------------------------------------------------------------------
\* Properties of the token bucket
\* ------------------------------------------------------------------------
\* C30: every entry of the in-memory limiter, in the map or still held by a
\* goroutine after a sweep dropped it, has between zero and BurstSize tokens
\* in every reachable state.
C30_TokensWithinBounds ==
    \A a \in Addrs : 0 <= rl.heap[a].tokens /\ rl.heap[a].tokens <= rl.config.BurstSize

\* One bucket is empty and has refused a request; another was refilled after
\* a long pause, up to the cap and no further, and then gave one token.
C30_Witness ==
    \E k1, k2 \in RLKeys :
       /\ rl.entries[k1] # NoEntry /\ rl.entries[k2] # NoEntry
       /\ rl.heap[rl.entries[k1]].tokens = 0
       /\ rl.heap[rl.entries[k1]].n > rl.heap[rl.entries[k1]].allowed
       /\ rl.heap[rl.entries[k2]].lastUpdate - rl.heap[rl.entries[k2]].created
             > IdleMinutes * TicksPerMinute
       /\ rl.heap[rl.entries[k2]].allowed = 2
       /\ rl.heap[rl.entries[k2]].tokens = rl.config.BurstSize - 1

\* ------------------------------------------------------------------------
\* Properties of allow against the reference token bucket
\* ------------------------------------------------------------------------
\* Goroutine g leaves the section under rl.mu in this step.
LooksUp(g) == rl.g[g].pc = "idle" /\ rl.g[g]'.pc = "entry"

\* Goroutine g decides in this step, on an entry the map holds.
Decides(g) ==
    /\ rl.g[g].pc = "entry" /\ rl.g[g]'.pc = "idle"
    /\ \E k \in RLKeys : rl.entries[k] = rl.g[g].entry

\* The whole tokens accrued in the ticks elapsed: floor(minutes * rate).
Accrued(elapsed) == (elapsed * rl.config.RequestsPerMinute) \div TicksPerMinute

\* The budget of the reference bucket after its refill.
Refilled(e) ==
    IF e.tokens + Accrued(rl.now - e.lastUpdate) > rl.config.BurstSize
      THEN rl.config.BurstSize
      ELSE e.tokens + Accrued(rl.now - e.lastUpdate)

\* C31: allow does what the reference token bucket does. A key without an
\* entry gets one with BurstSize tokens; the tokens are raised by the whole
\* tokens accrued since lastUpdate, capped at BurstSize, and lastUpdate moves
\* to now only when at least one token accrued; the request is allowed and one
\* token taken iff there is a token after the refill, and a denial leaves the
\* tokens as they were.
C31_MatchesReference ==
    [][\A g \in Goroutines :
          /\ LooksUp(g) =>
                /\ \E k \in RLKeys : rl.entries'[k] = rl.g[g]'.entry
                /\ (\A k \in RLKeys : rl.entries[k] # rl.g[g]'.entry) =>
                      /\ rl.heap'[rl.g[g]'.entry].tokens = rl.config.BurstSize
                      /\ rl.heap'[rl.g[g]'.entry].lastUpdate = rl.now
                /\ (\E k \in RLKeys : rl.entries[k] = rl.g[g]'.entry) => rl.heap' = rl.heap
          /\ Decides(g) =>
                LET e == rl.heap[rl.g[g].entry]
                    e2 == rl.heap'[rl.g[g].entry]
                IN /\ e2.lastUpdate = IF Accrued(rl.now - e.lastUpdate) >= 1
                                        THEN rl.now ELSE e.lastUpdate
                   /\ rl.g[g]'.ret = (Refilled(e) > 0)
                   /\ e2.tokens = IF Refilled(e) > 0 THEN Refilled(e) - 1 ELSE e.tokens]_vars

\* A bucket of two tokens was emptied, one token accrued, below the cap, and
\* was taken by the third request.
C31_Witness ==
    \E k \in RLKeys :
       /\ rl.entries[k] # NoEntry
       /\ rl.config.BurstSize = SmallBurst
       /\ rl.heap[rl.entries[k]].created = 0
       /\ rl.heap[rl.entries[k]].lastUpdate = 2
       /\ rl.heap[rl.entries[k]].allowed = 3
       /\ rl.heap[rl.entries[k]].tokens = 0
       /\ \E g \in Goroutines : rl.g[g].pc = "idle" /\ rl.g[g].ret

\* ------------------------------------------------------------------------
\* Properties of the serialization per key
\* ------------------------------------------------------------------------
\* No goroutine is inside the section under entry.mu of key k's entry.
NoneDeciding(k) ==
    \A g \in Goroutines : ~(rl.g[g].key = k /\ rl.g[g].pc \in { "load", "store" })

\* C32: with no refill time elapsing, of the n calls of allow decided for a
\* key, concurrent or not, exactly min(n, BurstSize) were allowed, and the
\* entry has lost exactly one token for each: no decrement is lost and no
\* token is given twice. At most one goroutine is between the read and the
\* write of an entry.
C32_SerializedPerKey ==
    /\ \A k \in RLKeys :
          /\ rl.count[k].allowed <= rl.config.BurstSize
          /\ (rl.entries[k] # NoEntry /\ NoneDeciding(k)) =>
                /\ rl.count[k].allowed = min(rl.count[k].n, rl.config.BurstSize)
                /\ rl.heap[rl.entries[k]].tokens = rl.config.BurstSize - rl.count[k].allowed
    /\ \A g, h \in Goroutines :
          (/\ g # h /\ rl.g[g].pc \in { "load", "store" } /\ rl.g[h].pc \in { "load", "store" })
             => rl.g[g].entry # rl.g[h].entry

\* Three calls for one key were decided, the third while another goroutine,
\* the fourth call for the key, waits for the entry's mutex: two were allowed.
C32_Witness ==
    \E k \in RLKeys, g \in Goroutines :
       /\ rl.count[k].n = 3 /\ rl.count[k].allowed = 2
       /\ rl.g[g].pc = "lockEntry" /\ rl.g[g].key = k
       /\ rl.heap[rl.entries[k]].tokens = 0

\* ------------------------------------------------------------------------
\* Properties of the sweep
\* ------------------------------------------------------------------------
\* Goroutine g takes its decision in this step.
DecidesAny(g) == rl.g[g].pc = "entry" /\ rl.g[g]'.pc = "idle"

\* C33: every decision of allow is taken on the entry the map holds for the
\* key, so that no request takes a token from an entry the sweep has removed
\* while the key's later requests start on a fresh, full one.
C33_DecisionsOnMapEntry ==
    [][\A g \in Goroutines :
          DecidesAny(g) => \E k \in RLKeys : rl.entries[k] = rl.g[g].entry]_vars

\* The age of key k's entry.
AgeOf(k) == 0 - rl.heap[rl.entries[k]].lastUpdate

\* C34: a sweep removes exactly the entries last refilled more than ten
\* minutes before it; no entry refilled within the last ten minutes leaves
\* the map; and the entry of a key that sends no more requests is eventually
\* removed.
C34_SweepRemovesIdle ==
    /\ [][/\ \A k \in RLKeys :
               (rl.entries[k] # NoEntry /\ rl.entries'[k] = NoEntry) => AgeOf(k) > IdleLimit
          /\ (rl.due /\ ~rl.due') =>
                \A k \in RLKeys :
                   (rl.entries[k] # NoEntry /\ AgeOf(k) > IdleLimit) => rl.entries'[k] = NoEntry]_vars
    /\ \A k \in RLKeys : (k \in rl.stopped) ~> (rl.entries[k] = NoEntry)

\* A sweep has just run: it has left an entry that is exactly ten minutes old
\* in the map and has removed the entry of a key whose client has stopped.
C34_Witness ==
    \E k1, k2 \in RLKeys :
       /\ ~rl.due
       /\ rl.entries[k1] # NoEntry /\ AgeOf(k1) = IdleLimit /\ k1 \notin rl.removed
       /\ k2 \in rl.stopped /\ rl.entries[k2] = NoEntry /\ k2 \in rl.removed

\* ------------------------------------------------------------------------
\* Properties of the in-memory limiter over an interval
\* ------------------------------------------------------------------------
\* The whole token periods since the interval watched began.
Periods == ((rl.now - rl.obs.start) * rl.config.RequestsPerMinute) \div TicksPerMinute

\* C35: over every interval, the requests allowed for a key are at most
\* BurstSize plus the whole token periods the interval holds.
C35_LongRunBound ==
    rl.obs.on => \A k \in RLKeys : rl.obs.allowed[k] <= rl.config.BurstSize + Periods

\* ------------------------------------------------------------------------
\* Properties of the recovery of an empty bucket
\* ------------------------------------------------------------------------
\* Goroutine g decides in this step on an entry of the map without tokens.
DecidesOnEmpty(g) == Decides(g) /\ rl.heap[rl.g[g].entry].tokens = 0

\* C36: a request that finds its key's bucket empty is allowed as soon as one
\* token period has passed since the bucket's last refill, and denied before;
\* a denial leaves lastUpdate where it was, so the requests denied in the
\* meantime do not put the refill off.
C36_RecoveryNotPostponed ==
    [][\A g \in Goroutines :
          DecidesOnEmpty(g) =>
             LET e == rl.heap[rl.g[g].entry] IN
             /\ rl.g[g]'.ret = ((rl.now - e.lastUpdate) * rl.config.RequestsPerMinute
                                   >= TicksPerMinute)
             /\ ~rl.g[g]'.ret => /\ rl.heap'[rl.g[g].entry].lastUpdate = e.lastUpdate
                                 /\ rl.heap'[rl.g[g].entry].tokens = 0]_vars

\* The default bucket gave its ten tokens, denied requests, and one token
\* period after it was made allowed the next one.
C36_Witness ==
    /\ rl.config.BurstSize = DefaultBurstSize
    /\ rl.entries[1] # NoEntry
    /\ rl.heap[rl.entries[1]].created = 0
    /\ rl.heap[rl.entries[1]].lastUpdate = 2
    /\ rl.now = 2
    /\ rl.heap[rl.entries[1]].allowed = DefaultBurstSize + 1
    /\ rl.heap[rl.entries[1]].n > DefaultBurstSize + 1
    /\ rl.g[1].pc = "idle" /\ rl.g[1].ret

\* ------------------------------------------------------------------------
\* Properties of the counters of the distributed limiter
\* ------------------------------------------------------------------------
\* The calls for key k that have incremented and not yet returned.
Incrementing(k) == { i \in Instances : rl.inst[i].pc = "expire" /\ rl.inst[i].key = k }

\* C37: with a live Redis the counter of a key is the number of increments
\* made in the window, none lost, and a counter never exists without an
\* expiry: the increment that creates it arms the expiry in the same step.
C37_IncrementAtomic ==
    \A k \in RLKeys :
       /\ rl.live => rl.counters[k] = rl.win[k].n + Cardinality(Incrementing(k))
       /\ rl.counters[k] > 0 => rl.ttl[k]

\* C38: a key that is being denied is allowed again when the window that
\* began with its first increment is over: the counter that denies has its
\* expiry armed once the call that created it has returned, and the request
\* that begins a window is allowed.
C38_WindowReset ==
    /\ [](\A k \in RLKeys :
            (rl.counters[k] > rl.config.requestsPerMinute /\ Incrementing(k) = {}) => rl.ttl[k])
    /\ [][\A i \in Instances :
            (rl.inst[i].pc = "expire" /\ rl.inst[i]'.pc = "idle") => rl.inst[i]'.ret]_vars

\* The decisions taken for key k in this step: how many, and how many allowed.
DecidedNow(k) == rl.win[k]'.n - rl.win[k].n

AllowedNow(k) == rl.win[k]'.allowed - rl.win[k].allowed

\* C39: with a Redis that answers, the request that raises the counter of its
\* key to c in a window is allowed iff c <= requestsPerMinute; every request,
\* denied ones too, raises the counter by one, and nothing but the counter and
\* requestsPerMinute enters the decision.
C39_DecisionRule ==
    [][rl.live =>
          \A k \in RLKeys :
             /\ (rl.counters[k]' = rl.counters[k] + 1 /\ rl.counters[k]' > 1) =>
                   /\ DecidedNow(k) = 1
                   /\ AllowedNow(k) = IF rl.counters[k]' <= rl.config.requestsPerMinute
                                        THEN 1 ELSE 0
             /\ (rl.counters[k]' = rl.counters[k] + 1 /\ rl.counters[k]' = 1) =>
                   /\ DecidedNow(k) = 0
                   /\ Incrementing(k)' # {}
             /\ (rl.counters[k]' = rl.counters[k] /\ DecidedNow(k) = 1) =>
                   /\ Incrementing(k) # Incrementing(k)'
                   /\ AllowedNow(k) = 1
             /\ DecidedNow(k) \in { 0, 1 } \/ rl.counters[k]' = 0]_vars

\* Four requests in one window of a key limited to two: two allowed, two
\* denied, and the counter stands at four.
C39_Witness ==
    \E k \in RLKeys, i \in Instances :
       /\ rl.live /\ rl.config.requestsPerMinute = SmallRate
       /\ rl.counters[k] = SmallRate + 2
       /\ rl.win[k].n = SmallRate + 2
       /\ rl.win[k].allowed = SmallRate
       /\ rl.inst[i].pc = "idle" /\ rl.inst[i].key = k /\ ~rl.inst[i].ret
       /\ rl.ended = 1

\* ------------------------------------------------------------------------
\* Properties of the uniqueness of e-mail addresses
\* ------------------------------------------------------------------------
\* The call of goroutine p was refused by the unique index.
LostRace(p) ==
    \E i \in DOMAIN proc[1][p].log :
       /\ proc[1][p].log[i][1] = "repo"
       /\ proc[1][p].log[i][2] \in { "Create", "Update" }
       /\ proc[1][p].log[i][3] = "ErrDuplicateKey"

\* C40: whatever the interleaving of CreateUser and UpdateUser calls, no two
\* rows of the users table have the same normalized e-mail address; the call
\* whose write the table refuses returns the error, has made no cache call,
\* and the step of the refusal changes neither table nor cache.
C40_UniqueEmail ==
    /\ [](\A i, j \in RowIds(store[1]) :
            i # j => normalizeEmail(store[1].rows[i].Email)
                        # normalizeEmail(store[1].rows[j].Email))
    /\ [](\A p \in Procs :
            LostRace(p) =>
               /\ proc[1][p].pc = "done"
               /\ proc[1][p].ret = [user |-> NoUser, err |-> "ErrDuplicateKey"]
               /\ NumCalls(proc[1][p], "cache") = 0)
    /\ [][\A p \in Procs :
            (~LostRace(p) /\ LostRace(p)') => store' = store /\ cache' = cache]_vars

\* A CreateUser and an UpdateUser that changes the address of another user,
\* with addresses that differ only in case and blanks, both found the address
\* free; the CreateUser made its row and the UpdateUser was refused.
C40_Witness ==
    \E p, q \in Procs :
       /\ p # q
       /\ proc[1][p].op = "CreateUser" /\ proc[1][q].op = "UpdateUser"
       /\ proc[1][p].input.Email = <<"a">> /\ proc[1][q].input.Email = Some(<<" ", "A">>)
       /\ <<"repo", "Create", Nil>> \in Range(proc[1][p].log)
       /\ proc[1][q].log = <<<<"repo", "FindByID", Nil>>, <<"repo", "ExistsByEmail", Nil>>,
                             <<"repo", "Update", "ErrDuplicateKey">>>>
       /\ proc[1][q].pc = "done" /\ proc[1][q].ret.err = "ErrDuplicateKey"
       /\ Cardinality(RowIds(store[1])) = 2
       /\ store[1].rows[1].Email = <<"b">>

====
